---- MODULE Spec2Model ----
(***************************************************************************)
(* X9 message passing library (src/x9.c): the inbox ring buffer, its       *)
(* per-slot flag protocol (slot_has_data, msg_written, shared), the two    *)
(* counters read_idx / write_idx, and the read/write operations, each C    *)
(* statement that touches shared memory being one step of a thread.        *)
(*                                                                         *)
(* Memory is sequentially consistent: the library targets x86              *)
(* (immintrin.h, _mm_pause), every flag and counter access is a C11        *)
(* atomic, and on x86 compare_exchange_weak does not fail spuriously, so   *)
(* the weak CAS of x9_write_to_inbox_spin is modelled like the strong one. *)
(* memcpy is not atomic: it copies the payload one cell at a time.         *)
(***************************************************************************)
EXTENDS Integers, Sequences, FiniteSets, TLC

(* ------------------------------ bounds -------------------------------- *)

\* Width in bits of the counters read_idx / write_idx (uint64_t in the code).
IdxBits == 2
\* Inbox capacities are 2, 4, .., 2 * MaxHalfSz (the code wants sz > 0, even).
MaxHalfSz == 1
\* Messages each producer writes (NUMBER_OF_MESSAGES, n_msgs).
NMsgs == 3
\* Cells of a payload; memcpy copies them one after the other.
MsgCells == 2

Pow2W == 2 ^ IdxBits
Capacities == { 2 * h : h \in 1..MaxHalfSz }
Cells == 1..MsgCells
Threads == 1..6
Inboxes == 1..3
Unlimited == -1

VARIABLES
  \* x9_inbox, immutable after x9_create_inbox
  sz,             \* [Inboxes -> capacity]
  constant,       \* [Inboxes -> reciprocal constant of the fast modulo]
  \* x9_inbox, mutable
  read_idx,       \* [Inboxes -> 0..Pow2W-1]
  write_idx,      \* [Inboxes -> 0..Pow2W-1]
  \* x9_msg_header of every slot, and the payload behind it
  slot_has_data,  \* [Inboxes -> [slot -> BOOLEAN]]
  msg_written,    \* [Inboxes -> [slot -> BOOLEAN]]
  shared,         \* [Inboxes -> [slot -> BOOLEAN]]
  payload,        \* [Inboxes -> [slot -> [Cells -> value]]]
  \* the calling threads (th_struct and the loops of the examples)
  kind,           \* [Threads -> "producer" | "consumer" | "translator" | "off"
                  \*   | "peer" | "broadcaster" | "until_last" | "echo_last"]
  ops,            \* [Threads -> set of the operations the thread calls]
  n_msgs,         \* [Threads -> loop bound, or Unlimited]
  r_ibx,          \* [Threads -> inbox the thread reads from]
  w_ibx,          \* [Threads -> inbox the thread writes to]
  track,          \* FALSE: threads loop for ever and keep no count
  \* locals of the operation a thread is executing
  pc,             \* [Threads -> place in the code]
  idx,            \* [Threads -> register idx (0 outside a call)]
  cell,           \* [Threads -> next cell memcpy copies]
  outparam,       \* [Threads -> [Cells -> value]] the reader's buffer
  k,              \* [Threads -> loop counter: messages written / read]
  bcast_k,        \* [Threads -> k of the loop of the broadcast, from 1]
  rlog,           \* [Threads -> sequence of the payloads its reads returned]
  \* construction and release (x9_create_*, x9_select_*, x9_free_*)
  inbox_name,     \* [Inboxes -> inbox->name]
  inbox_made,     \* [Inboxes -> TRUE once x9_create_inbox has returned it]
  inbox_frees,    \* [Inboxes -> number of free(inbox) calls on it]
  node,           \* the x9_node: [inboxes, n_inboxes, name]
  node_made,      \* TRUE once x9_create_node has returned the node
  node_frees,     \* number of free(node) calls on it
  ret             \* what the last construction / release call returned

life   == <<inbox_name, inbox_made, inbox_frees, node, node_made, node_frees, ret>>
cfg    == <<sz, constant, kind, ops, n_msgs, r_ibx, w_ibx, track, life>>
idxs   == <<read_idx, write_idx>>
flags  == <<slot_has_data, msg_written, shared>>
locals == <<idx, cell, outparam, k, rlog>>
vars   == <<cfg, idxs, flags, payload, pc, locals, bcast_k>>

Slots(ib) == 0..(sz[ib] - 1)

(* --------------------------- x9_create_inbox --------------------------- *)

\* Mutant: the + 1 is left out.
x9_constant_floor(W, s) == (W - 1) \div s

\* inbox->constant = UINT64_C(0xFFFFFFFFFFFFFFFF) / sz + 1, at width IdxBits
x9_constant(W, s) == ((W - 1) \div s) + 1

x9_create_inbox_constant(s) == x9_constant(Pow2W, s)

\* The null pointer, for inboxes and for the node.
NULL == 0

\* calloc(1, sizeof(x9_node)): no inbox array, no name.
NoNode == [inboxes |-> <<>>, n_inboxes |-> 0, name |-> ""]

NoRet == [op |-> "none", val |-> NULL, fault |-> FALSE, refs |-> <<>>, name |-> ""]

\* Every inbox has been created, is named "ibx" and is alive; no node.
Constructed ==
  /\ inbox_name = [ib \in Inboxes |-> "ibx"]
  /\ inbox_made = [ib \in Inboxes |-> TRUE]
  /\ inbox_frees = [ib \in Inboxes |-> 0]
  /\ node = NoNode /\ node_made = FALSE /\ node_frees = 0
  /\ ret = NoRet

\* The state x9_create_inbox leaves: memset/calloc zero every counter, flag
\* and payload byte.
x9_create_inbox(s) ==
  /\ Constructed
  /\ s > 0 /\ s % 2 = 0
  /\ sz = [ib \in Inboxes |-> s]
  /\ constant = [ib \in Inboxes |-> x9_create_inbox_constant(s)]
  /\ read_idx = [ib \in Inboxes |-> 0]
  /\ write_idx = [ib \in Inboxes |-> 0]
  /\ slot_has_data = [ib \in Inboxes |-> [i \in 0..(s - 1) |-> FALSE]]
  /\ msg_written = [ib \in Inboxes |-> [i \in 0..(s - 1) |-> FALSE]]
  /\ shared = [ib \in Inboxes |-> [i \in 0..(s - 1) |-> FALSE]]
  /\ payload = [ib \in Inboxes |-> [i \in 0..(s - 1) |-> [c \in Cells |-> 0]]]

(* ------------------------------ threads -------------------------------- *)

\* The locals of a thread before its loop starts: msg m = {0}, no call made.
LocalsStart ==
  /\ idx = [t \in Threads |-> 0]
  /\ cell = [t \in Threads |-> 1]
  /\ outparam = [t \in Threads |-> [c \in Cells |-> 0]]
  /\ k = [t \in Threads |-> 0]
  /\ bcast_k = [t \in Threads |-> 1]
  /\ rlog = [t \in Threads |-> <<>>]

\* Every thread at the top of its loop.
ThreadsStart == pc = [t \in Threads |-> "idle"] /\ LocalsStart

\* The j-th message of producer t: every cell carries the same value
\* (memset(m.a, random_val, msg_sz)), here one that names the message.
MsgId(t, j) == IF track THEN (t - 1) * (NMsgs + 1) + j ELSE 1

\* fill_msg_type_2: the outgoing message is computed from the incoming one,
\* cell by cell, and differs from every message of type 1.
Translate(v) == v + 2 * (NMsgs + 1)

\* if (k == (NUMBER_OF_MESSAGES - 1)) { m.last_message = true; }: the
\* values of the last message of each writer.
LastIds == { MsgId(t, n_msgs[t]) : t \in { p \in Threads : kind[p] = "producer" } }

\* if (m.last_message), on the message a read has just returned to thread t
last_message(t) == outparam[t][MsgCells] \in LastIds

\* The buffer a write call is handed: the producer's next message, the
\* translator's outgoing_msg, or the message just read (example 6).
msg(t) ==
  IF kind[t] = "translator"
  THEN [c \in Cells |-> Translate(outparam[t][c])]
  ELSE IF kind[t] = "echo_last"
  THEN outparam[t]
  ELSE [c \in Cells |-> MsgId(t, k[t] + 1)]

\* x9_example_3.c: msgs_sent and msgs_read of a thread that does both.
msgs_sent(t) == k[t]
msgs_read(t) == Len(rlog[t])

\* x9_example_3.c producer_1_fn / producer_2_fn: one pass of the loop tries
\* a write (while msgs_sent != N) and then tries a read (while
\* msgs_read != N); "idle" is the place before the write, "turn_r" the
\* place before the read.
PeerCanCall(t, op) ==
  \/ /\ op = "write"
     /\ msgs_sent(t) # n_msgs[t]
     /\ pc[t] = "idle" \/ (pc[t] = "turn_r" /\ msgs_read(t) = n_msgs[t])
  \/ /\ op = "read"
     /\ msgs_read(t) # n_msgs[t]
     /\ pc[t] = "turn_r" \/ (pc[t] = "idle" /\ msgs_sent(t) = n_msgs[t])

\* The loops of producer_fn / consumer_fn / producer_consumer_fn: thread t
\* is about to call operation op.
CanCall(t, op) ==
  /\ op \in ops[t]
  /\ IF kind[t] = "peer"
     THEN PeerCanCall(t, op)
     ELSE /\ pc[t] = (IF kind[t] \in {"translator", "echo_last"} /\ op = "write_spin"
                      THEN "filled" ELSE "idle")
          /\ (n_msgs[t] = Unlimited \/ k[t] < n_msgs[t])

\* x9_create_node("my_node", 3, inbox_consumer_1, inbox_consumer_2,
\* inbox_consumer_3): node->inboxes, in list order.
node_inboxes == <<1, 2, 3>>

\* The inbox a write of thread t goes to: its own outbound inbox, or, inside
\* x9_broadcast_msg_to_all_node_inboxes, node->inboxes[k].
WIbx(t) == IF kind[t] = "broadcaster" THEN node_inboxes[bcast_k[t]] ELSE w_ibx[t]

Upd(f, t, v) == [f EXCEPT ![t] = v]
Upd2(f, ib, i, v) == [f EXCEPT ![ib][i] = v]

(* ------------------------- index arithmetic ---------------------------- *)

\* Mutant: the product constant * c is not truncated to the counter width.
x9_fast_mod_untruncated(W, K, s, c) == ((K * c) * s) \div W

\* The fast modulo shared by x9_load_idx and x9_increment_idx:
\* low_bits = constant * c (truncated to the counter width), and the result
\* is the high word of low_bits * sz.
\* K the stored constant, s the capacity, W = 2^width.
x9_fast_mod(W, K, s, c) == (((K * c) % W) * s) \div W

FastMod(ib, c) == x9_fast_mod(Pow2W, constant[ib], sz[ib], c)

\* x9_load_idx: relaxed load of read_idx / write_idx, then the fast modulo.
x9_load_idx(ib, rd) == FastMod(ib, IF rd THEN read_idx[ib] ELSE write_idx[ib])

\* atomic_fetch_add_explicit(&counter, 1, ..) on a counter of IdxBits bits.
FetchAdd(c) == (c + 1) % Pow2W

\* Where a loop goes when a read call has returned a message: on to the
\* write of the message (translator, and example 6 on the last message),
\* out of the loop (example 5 on a last message), or round the loop.
AfterRead(t) ==
  IF kind[t] = "translator" THEN "filled"
  ELSE IF kind[t] = "echo_last" /\ last_message(t) THEN "filled"
  ELSE IF kind[t] = "until_last" /\ last_message(t) THEN "done"
  ELSE "idle"

\* The loop counter after a read that returned a message (++msgs_read):
\* example 6 counts its last message only after it has written it back.
ReadCount(t) ==
  IF ~track \/ kind[t] \in {"translator", "peer"} THEN k[t]
  ELSE IF kind[t] = "echo_last" /\ last_message(t) THEN k[t]
  ELSE k[t] + 1

\* The record of the messages the reads of thread t returned; the threads
\* of examples 5 and 6 only count.
ReadLog(t) ==
  IF track /\ kind[t] \in {"consumer", "peer"} THEN Append(rlog[t], outparam[t]) ELSE rlog[t]

\* The broadcast loop has more inboxes to write to.
MoreInboxes(t) == kind[t] = "broadcaster" /\ bcast_k[t] < Len(node_inboxes)

\* Where a thread goes when a write call returns: into the next
\* x9_write_to_inbox_spin of the broadcast, out of the thread (example 6),
\* on to the read (example 3), or round the loop.
AfterWrite(t) ==
  IF MoreInboxes(t) THEN "ws_inc"
  ELSE IF kind[t] = "echo_last" THEN "done"
  ELSE IF kind[t] = "peer" THEN "turn_r"
  ELSE "idle"

\* The loop counter after a call that wrote a message; a broadcast counts
\* once, when its last write has returned.
WriteCount(t) == IF track /\ ~MoreInboxes(t) THEN k[t] + 1 ELSE k[t]

\* Mutant: the loop steps over every other inbox.
BcastNext_skip(t) ==
  IF kind[t] # "broadcaster" THEN bcast_k[t]
  ELSE IF bcast_k[t] + 2 <= Len(node_inboxes) THEN bcast_k[t] + 2
  ELSE IF MoreInboxes(t) THEN Len(node_inboxes) ELSE 1

\* for (uint64_t k = 0; k != node->n_inboxes; ++k)
BcastNext(t) ==
  IF kind[t] # "broadcaster" THEN bcast_k[t]
  ELSE IF MoreInboxes(t) THEN bcast_k[t] + 1 ELSE 1

(* -------------------- x9_write_to_inbox (try_write) -------------------- *)

\* idx = x9_load_idx(inbox, false); header = x9_header_ptr(inbox, idx)
x9_write_to_inbox_load_idx(t) ==
  /\ CanCall(t, "write")
  /\ idx' = Upd(idx, t, x9_load_idx(WIbx(t), FALSE))
  /\ pc' = Upd(pc, t, "w_cas")
  /\ UNCHANGED <<cfg, bcast_k, idxs, flags, payload, cell, outparam, k, rlog>>

\* Mutant: a failed attempt moves write_idx on before it returns false.
x9_write_to_inbox_cas_advancing(t) ==
  /\ pc[t] = "w_cas"
  /\ IF ~slot_has_data[WIbx(t)][idx[t]]
     THEN /\ slot_has_data' = Upd2(slot_has_data, WIbx(t), idx[t], TRUE)
          /\ pc' = Upd(pc, t, "w_copy")
          /\ UNCHANGED <<idx, write_idx>>
     ELSE /\ pc' = Upd(pc, t, AfterWrite(t))
          /\ idx' = Upd(idx, t, 0)
          /\ write_idx' = Upd(write_idx, WIbx(t), FetchAdd(write_idx[WIbx(t)]))
          /\ UNCHANGED slot_has_data
  /\ UNCHANGED <<cfg, bcast_k, read_idx, msg_written, shared, payload, cell, outparam, k, rlog>>

\* Mutant: the slot is claimed without looking at slot_has_data.
x9_write_to_inbox_cas_blind(t) ==
  /\ pc[t] = "w_cas"
  /\ slot_has_data' = Upd2(slot_has_data, WIbx(t), idx[t], TRUE)
  /\ pc' = Upd(pc, t, "w_copy")
  /\ UNCHANGED <<cfg, bcast_k, idxs, msg_written, shared, payload, locals>>

\* atomic_compare_exchange_strong(&header->slot_has_data, &f, true); on
\* failure the call returns false.
x9_write_to_inbox_cas(t) ==
  /\ pc[t] = "w_cas"
  /\ IF ~slot_has_data[WIbx(t)][idx[t]]
     THEN /\ slot_has_data' = Upd2(slot_has_data, WIbx(t), idx[t], TRUE)
          /\ pc' = Upd(pc, t, "w_copy")
          /\ UNCHANGED idx
     ELSE /\ pc' = Upd(pc, t, AfterWrite(t))
          /\ idx' = Upd(idx, t, 0)
          /\ UNCHANGED slot_has_data
  /\ UNCHANGED <<cfg, bcast_k, idxs, msg_written, shared, payload, cell, outparam, k, rlog>>

\* memcpy((char*)header + sizeof(x9_msg_header), msg, msg_sz), one cell
WriteCell(t, here, next) ==
  /\ pc[t] = here
  /\ payload' = [payload EXCEPT ![WIbx(t)][idx[t]][cell[t]] = msg(t)[cell[t]]]
  /\ cell' = Upd(cell, t, IF cell[t] = MsgCells THEN 1 ELSE cell[t] + 1)
  /\ pc' = Upd(pc, t, IF cell[t] = MsgCells THEN next ELSE here)
  /\ UNCHANGED <<cfg, bcast_k, idxs, flags, idx, outparam, k, rlog>>

x9_write_to_inbox_memcpy(t) == WriteCell(t, "w_copy", "w_inc")

\* Mutant: write_idx is advanced by two.
x9_write_to_inbox_fetch_add_twice(t) ==
  /\ pc[t] = "w_inc"
  /\ write_idx' = Upd(write_idx, WIbx(t), FetchAdd(FetchAdd(write_idx[WIbx(t)])))
  /\ pc' = Upd(pc, t, "w_pub")
  /\ UNCHANGED <<cfg, bcast_k, read_idx, flags, payload, locals>>

\* Mutant: write_idx is left where it was.
x9_write_to_inbox_fetch_add_forgotten(t) ==
  /\ pc[t] = "w_inc"
  /\ pc' = Upd(pc, t, "w_pub")
  /\ UNCHANGED <<cfg, bcast_k, idxs, flags, payload, locals>>

\* atomic_fetch_add_explicit(&inbox->write_idx, 1, __ATOMIC_RELEASE)
x9_write_to_inbox_fetch_add(t) ==
  /\ pc[t] = "w_inc"
  /\ write_idx' = Upd(write_idx, WIbx(t), FetchAdd(write_idx[WIbx(t)]))
  /\ pc' = Upd(pc, t, "w_pub")
  /\ UNCHANGED <<cfg, bcast_k, read_idx, flags, payload, locals>>

\* atomic_store_explicit(&header->msg_written, true, ..); return true
x9_write_to_inbox_store_written(t) ==
  /\ pc[t] = "w_pub"
  /\ msg_written' = Upd2(msg_written, WIbx(t), idx[t], TRUE)
  /\ pc' = Upd(pc, t, AfterWrite(t))
  /\ idx' = Upd(idx, t, 0)
  /\ k' = Upd(k, t, WriteCount(t))
  /\ UNCHANGED <<cfg, bcast_k, idxs, slot_has_data, shared, payload, cell, outparam, rlog>>

(* ---------------- x9_write_to_inbox_spin (write_spin) ------------------ *)

\* Mutant: the writer draws its ticket from read_idx
\* (x9_increment_idx(inbox, true)).
x9_write_to_inbox_spin_increment_idx_of_read(t) ==
  /\ CanCall(t, "write_spin") \/ pc[t] = "ws_inc"
  /\ idx' = Upd(idx, t, x9_load_idx(WIbx(t), TRUE))
  /\ read_idx' = Upd(read_idx, WIbx(t), FetchAdd(read_idx[WIbx(t)]))
  /\ pc' = Upd(pc, t, "ws_cas")
  /\ UNCHANGED <<cfg, bcast_k, write_idx, flags, payload, cell, outparam, k, rlog>>

\* for (;;) { idx = x9_increment_idx(inbox, false); ..: the fetch-and-add
\* is the first statement of the loop body, executed on every iteration.
x9_write_to_inbox_spin_increment_idx(t) ==
  /\ CanCall(t, "write_spin") \/ pc[t] = "ws_inc"
  /\ idx' = Upd(idx, t, x9_load_idx(WIbx(t), FALSE))
  /\ write_idx' = Upd(write_idx, WIbx(t), FetchAdd(write_idx[WIbx(t)]))
  /\ pc' = Upd(pc, t, "ws_cas")
  /\ UNCHANGED <<cfg, bcast_k, read_idx, flags, payload, cell, outparam, k, rlog>>

\* Mutant: the slot is claimed without looking at slot_has_data.
x9_write_to_inbox_spin_cas_blind(t) ==
  /\ pc[t] = "ws_cas"
  /\ slot_has_data' = Upd2(slot_has_data, WIbx(t), idx[t], TRUE)
  /\ pc' = Upd(pc, t, "ws_copy")
  /\ UNCHANGED <<cfg, bcast_k, idxs, msg_written, shared, payload, locals>>

\* Mutant: a failed CAS ends the call, as in x9_write_to_inbox; the message
\* is dropped and the caller goes on.
x9_write_to_inbox_spin_cas_giving_up(t) ==
  /\ pc[t] = "ws_cas"
  /\ IF ~slot_has_data[WIbx(t)][idx[t]]
     THEN /\ slot_has_data' = Upd2(slot_has_data, WIbx(t), idx[t], TRUE)
          /\ pc' = Upd(pc, t, "ws_copy")
          /\ UNCHANGED <<idx, k, bcast_k>>
     ELSE /\ pc' = Upd(pc, t, AfterWrite(t))
          /\ idx' = Upd(idx, t, 0)
          /\ k' = Upd(k, t, WriteCount(t))
          /\ bcast_k' = Upd(bcast_k, t, BcastNext(t))
          /\ UNCHANGED slot_has_data
  /\ UNCHANGED <<cfg, idxs, msg_written, shared, payload, cell, outparam, rlog>>

\* atomic_compare_exchange_weak(&header->slot_has_data, &f, true); on
\* failure the loop starts over.
x9_write_to_inbox_spin_cas(t) ==
  /\ pc[t] = "ws_cas"
  /\ IF ~slot_has_data[WIbx(t)][idx[t]]
     THEN /\ slot_has_data' = Upd2(slot_has_data, WIbx(t), idx[t], TRUE)
          /\ pc' = Upd(pc, t, "ws_copy")
     ELSE /\ pc' = Upd(pc, t, "ws_inc")
          /\ UNCHANGED slot_has_data
  /\ UNCHANGED <<cfg, bcast_k, idxs, msg_written, shared, payload, locals>>

x9_write_to_inbox_spin_memcpy(t) == WriteCell(t, "ws_copy", "ws_pub")

\* atomic_store_explicit(&header->msg_written, true, ..); break
x9_write_to_inbox_spin_store_written(t) ==
  /\ pc[t] = "ws_pub"
  /\ msg_written' = Upd2(msg_written, WIbx(t), idx[t], TRUE)
  /\ pc' = Upd(pc, t, AfterWrite(t))
  /\ idx' = Upd(idx, t, 0)
  /\ k' = Upd(k, t, WriteCount(t))
  /\ bcast_k' = Upd(bcast_k, t, BcastNext(t))
  /\ UNCHANGED <<cfg, idxs, slot_has_data, shared, payload, cell, outparam, rlog>>

(* ---------------------- x9_read_from_inbox (try_read) ------------------ *)

\* memcpy(outparam, (char*)header + sizeof(x9_msg_header), msg_sz), one cell
ReadCell(t, here, next) ==
  /\ pc[t] = here
  /\ outparam' = [outparam EXCEPT ![t][cell[t]] = payload[r_ibx[t]][idx[t]][cell[t]]]
  /\ cell' = Upd(cell, t, IF cell[t] = MsgCells THEN 1 ELSE cell[t] + 1)
  /\ pc' = Upd(pc, t, IF cell[t] = MsgCells THEN next ELSE here)
  /\ UNCHANGED <<cfg, bcast_k, idxs, flags, payload, idx, k, rlog>>

\* Mutant: the reader clears slot_has_data where it should clear msg_written.
ClearWritten_wrong_flag(t, here, next) ==
  /\ pc[t] = here
  /\ slot_has_data' = Upd2(slot_has_data, r_ibx[t], idx[t], FALSE)
  /\ pc' = Upd(pc, t, next)
  /\ UNCHANGED <<cfg, bcast_k, idxs, msg_written, shared, payload, locals>>

\* atomic_store_explicit(&header->msg_written, false, __ATOMIC_RELAXED)
ClearWritten(t, here, next) ==
  /\ pc[t] = here
  /\ msg_written' = Upd2(msg_written, r_ibx[t], idx[t], FALSE)
  /\ pc' = Upd(pc, t, next)
  /\ UNCHANGED <<cfg, bcast_k, idxs, slot_has_data, shared, payload, locals>>

\* atomic_store_explicit(&header->slot_has_data, false, __ATOMIC_RELEASE)
ClearHasData(t, here, next) ==
  /\ pc[t] = here
  /\ slot_has_data' = Upd2(slot_has_data, r_ibx[t], idx[t], FALSE)
  /\ pc' = Upd(pc, t, next)
  /\ UNCHANGED <<cfg, bcast_k, idxs, msg_written, shared, payload, locals>>

\* A flag load that lets the call go on to `next` when the flag is set and
\* makes it return false when it is not.
LoadOrReturn(t, here, flag, next) ==
  /\ pc[t] = here
  /\ IF flag[r_ibx[t]][idx[t]]
     THEN /\ pc' = Upd(pc, t, next)
          /\ UNCHANGED idx
     ELSE /\ pc' = Upd(pc, t, "idle")
          /\ idx' = Upd(idx, t, 0)
  /\ UNCHANGED <<cfg, bcast_k, idxs, flags, payload, cell, outparam, k, rlog>>

\* A flag load inside a loop or a locked section: on to `next` when the
\* flag is set, to `other` when it is not.
LoadOrElse(t, here, flag, next, other) ==
  /\ pc[t] = here
  /\ pc' = Upd(pc, t, IF flag[r_ibx[t]][idx[t]] THEN next ELSE other)
  /\ UNCHANGED <<cfg, bcast_k, idxs, flags, payload, locals>>

\* The call returns a message: the caller's loop counts it.
ReturnRead(t) ==
  /\ pc' = Upd(pc, t, AfterRead(t))
  /\ idx' = Upd(idx, t, 0)
  /\ k' = Upd(k, t, ReadCount(t))
  /\ rlog' = Upd(rlog, t, ReadLog(t))

\* idx = x9_load_idx(inbox, true); header = x9_header_ptr(inbox, idx)
x9_read_from_inbox_load_idx(t) ==
  /\ CanCall(t, "read")
  /\ idx' = Upd(idx, t, x9_load_idx(r_ibx[t], TRUE))
  /\ pc' = Upd(pc, t, "r_occ")
  /\ UNCHANGED <<cfg, bcast_k, idxs, flags, payload, cell, outparam, k, rlog>>

\* if (atomic_load(&header->slot_has_data)) .. else return false
x9_read_from_inbox_load_has_data(t) == LoadOrReturn(t, "r_occ", slot_has_data, "r_rdy")

\* Mutant: a slot that is claimed but not yet published is given back
\* before the call returns false.
x9_read_from_inbox_load_written_discarding(t) ==
  /\ pc[t] = "r_rdy"
  /\ IF msg_written[r_ibx[t]][idx[t]]
     THEN /\ pc' = Upd(pc, t, "r_copy")
          /\ UNCHANGED <<idx, slot_has_data>>
     ELSE /\ pc' = Upd(pc, t, "idle")
          /\ idx' = Upd(idx, t, 0)
          /\ slot_has_data' = Upd2(slot_has_data, r_ibx[t], idx[t], FALSE)
  /\ UNCHANGED <<cfg, bcast_k, idxs, msg_written, shared, payload, cell, outparam, k, rlog>>

\* Mutant: the second check looks at slot_has_data again, not at msg_written.
x9_read_from_inbox_load_written_unchecked(t) ==
  LoadOrReturn(t, "r_rdy", slot_has_data, "r_copy")

\* if (atomic_load(&header->msg_written)) .. else return false
x9_read_from_inbox_load_written(t) == LoadOrReturn(t, "r_rdy", msg_written, "r_copy")

x9_read_from_inbox_memcpy(t) == ReadCell(t, "r_copy", "r_clrw")

x9_read_from_inbox_clear_written(t) == ClearWritten(t, "r_clrw", "r_clrd")

x9_read_from_inbox_clear_has_data(t) == ClearHasData(t, "r_clrd", "r_inc")

\* Mutant: read_idx is advanced by two.
x9_read_from_inbox_fetch_add_twice(t) ==
  /\ pc[t] = "r_inc"
  /\ read_idx' = Upd(read_idx, r_ibx[t], FetchAdd(FetchAdd(read_idx[r_ibx[t]])))
  /\ ReturnRead(t)
  /\ UNCHANGED <<cfg, bcast_k, write_idx, flags, payload, cell, outparam>>

\* Mutant: the call returns true without advancing read_idx.
x9_read_from_inbox_fetch_add_forgotten(t) ==
  /\ pc[t] = "r_inc"
  /\ ReturnRead(t)
  /\ UNCHANGED <<cfg, bcast_k, idxs, flags, payload, cell, outparam>>

\* atomic_fetch_add_explicit(&inbox->read_idx, 1, ..); return true
x9_read_from_inbox_fetch_add(t) ==
  /\ pc[t] = "r_inc"
  /\ read_idx' = Upd(read_idx, r_ibx[t], FetchAdd(read_idx[r_ibx[t]]))
  /\ ReturnRead(t)
  /\ UNCHANGED <<cfg, bcast_k, write_idx, flags, payload, cell, outparam>>

(* ------------------- x9_read_from_inbox_spin (read_spin) --------------- *)

\* idx = x9_increment_idx(inbox, true), once, before the loop
x9_read_from_inbox_spin_increment_idx(t) ==
  /\ CanCall(t, "read_spin")
  /\ idx' = Upd(idx, t, x9_load_idx(r_ibx[t], TRUE))
  /\ read_idx' = Upd(read_idx, r_ibx[t], FetchAdd(read_idx[r_ibx[t]]))
  /\ pc' = Upd(pc, t, "rs_occ")
  /\ UNCHANGED <<cfg, bcast_k, write_idx, flags, payload, cell, outparam, k, rlog>>

\* for (;;) { _mm_pause(); if (atomic_load(&header->slot_has_data)) ..
x9_read_from_inbox_spin_load_has_data(t) ==
  LoadOrElse(t, "rs_occ", slot_has_data, "rs_rdy", "rs_occ")

\* if (atomic_load(&header->msg_written)) .. else next iteration
x9_read_from_inbox_spin_load_written(t) ==
  LoadOrElse(t, "rs_rdy", msg_written, "rs_copy", "rs_occ")

x9_read_from_inbox_spin_memcpy(t) == ReadCell(t, "rs_copy", "rs_clrw")

\* Mutant: the non-shared spinning read marks the slot it is clearing as
\* locked.
x9_read_from_inbox_spin_clear_written_locking(t) ==
  /\ pc[t] = "rs_clrw"
  /\ msg_written' = Upd2(msg_written, r_ibx[t], idx[t], FALSE)
  /\ shared' = Upd2(shared, r_ibx[t], idx[t], TRUE)
  /\ pc' = Upd(pc, t, "rs_clrd")
  /\ UNCHANGED <<cfg, bcast_k, idxs, slot_has_data, payload, locals>>

x9_read_from_inbox_spin_clear_written(t) == ClearWritten(t, "rs_clrw", "rs_clrd")

\* Mutant: the call returns without giving the slot back.
x9_read_from_inbox_spin_clear_has_data_forgotten(t) ==
  /\ pc[t] = "rs_clrd"
  /\ ReturnRead(t)
  /\ UNCHANGED <<cfg, bcast_k, idxs, flags, payload, cell, outparam>>

\* atomic_store_explicit(&header->slot_has_data, false, ..); return
x9_read_from_inbox_spin_clear_has_data(t) ==
  /\ pc[t] = "rs_clrd"
  /\ slot_has_data' = Upd2(slot_has_data, r_ibx[t], idx[t], FALSE)
  /\ ReturnRead(t)
  /\ UNCHANGED <<cfg, bcast_k, idxs, msg_written, shared, payload, cell, outparam>>

(* --------------- x9_read_from_shared_inbox (try_read_shared) ----------- *)

\* idx = x9_load_idx(inbox, true); header = x9_header_ptr(inbox, idx)
x9_read_from_shared_inbox_load_idx(t) ==
  /\ CanCall(t, "read_shared")
  /\ idx' = Upd(idx, t, x9_load_idx(r_ibx[t], TRUE))
  /\ pc' = Upd(pc, t, "sh_cas")
  /\ UNCHANGED <<cfg, bcast_k, idxs, flags, payload, cell, outparam, k, rlog>>

\* Mutant: one lock for the whole inbox: the CAS fails while any slot of the
\* inbox is locked.
x9_read_from_shared_inbox_cas_inbox_wide(t) ==
  /\ pc[t] = "sh_cas"
  /\ IF \A i \in Slots(r_ibx[t]) : ~shared[r_ibx[t]][i]
     THEN /\ shared' = Upd2(shared, r_ibx[t], idx[t], TRUE)
          /\ pc' = Upd(pc, t, "sh_occ")
          /\ UNCHANGED idx
     ELSE /\ pc' = Upd(pc, t, "idle")
          /\ idx' = Upd(idx, t, 0)
          /\ UNCHANGED shared
  /\ UNCHANGED <<cfg, bcast_k, idxs, slot_has_data, msg_written, payload, cell, outparam, k, rlog>>

\* Mutant: the lock is taken without looking at it.
x9_read_from_shared_inbox_cas_blind(t) ==
  /\ pc[t] = "sh_cas"
  /\ shared' = Upd2(shared, r_ibx[t], idx[t], TRUE)
  /\ pc' = Upd(pc, t, "sh_occ")
  /\ UNCHANGED <<cfg, bcast_k, idxs, slot_has_data, msg_written, payload, locals>>

\* atomic_compare_exchange_strong(&header->shared, &f, true); on failure
\* the call returns false.
x9_read_from_shared_inbox_cas(t) ==
  /\ pc[t] = "sh_cas"
  /\ IF ~shared[r_ibx[t]][idx[t]]
     THEN /\ shared' = Upd2(shared, r_ibx[t], idx[t], TRUE)
          /\ pc' = Upd(pc, t, "sh_occ")
          /\ UNCHANGED idx
     ELSE /\ pc' = Upd(pc, t, "idle")
          /\ idx' = Upd(idx, t, 0)
          /\ UNCHANGED shared
  /\ UNCHANGED <<cfg, bcast_k, idxs, slot_has_data, msg_written, payload, cell, outparam, k, rlog>>

\* if (atomic_load(&header->slot_has_data)) .. else fall to the unlock
x9_read_from_shared_inbox_load_has_data(t) ==
  LoadOrElse(t, "sh_occ", slot_has_data, "sh_rdy", "sh_fail")

\* if (atomic_load(&header->msg_written)) .. else fall to the unlock
x9_read_from_shared_inbox_load_written(t) ==
  LoadOrElse(t, "sh_rdy", msg_written, "sh_copy", "sh_fail")

x9_read_from_shared_inbox_memcpy(t) == ReadCell(t, "sh_copy", "sh_inc")

\* atomic_fetch_add_explicit(&inbox->read_idx, 1, __ATOMIC_RELEASE)
x9_read_from_shared_inbox_fetch_add(t) ==
  /\ pc[t] = "sh_inc"
  /\ read_idx' = Upd(read_idx, r_ibx[t], FetchAdd(read_idx[r_ibx[t]]))
  /\ pc' = Upd(pc, t, "sh_clrw")
  /\ UNCHANGED <<cfg, bcast_k, write_idx, flags, payload, locals>>

\* Mutant: the shared read releases the slot first and never clears
\* msg_written.
x9_read_from_shared_inbox_clear_written_swapped(t) ==
  ClearHasData(t, "sh_clrw", "sh_clrd")

x9_read_from_shared_inbox_clear_written(t) == ClearWritten(t, "sh_clrw", "sh_clrd")

x9_read_from_shared_inbox_clear_has_data(t) == ClearHasData(t, "sh_clrd", "sh_unlock")

\* atomic_store_explicit(&header->shared, false, ..); return true
x9_read_from_shared_inbox_unlock(t) ==
  /\ pc[t] = "sh_unlock"
  /\ shared' = Upd2(shared, r_ibx[t], idx[t], FALSE)
  /\ ReturnRead(t)
  /\ UNCHANGED <<cfg, bcast_k, idxs, slot_has_data, msg_written, payload, cell, outparam>>

\* Mutant: the call returns false with the slot still locked.
x9_read_from_shared_inbox_unlock_not_read_forgotten(t) ==
  /\ pc[t] = "sh_fail"
  /\ pc' = Upd(pc, t, "idle")
  /\ idx' = Upd(idx, t, 0)
  /\ UNCHANGED <<cfg, bcast_k, idxs, flags, payload, cell, outparam, k, rlog>>

\* atomic_store_explicit(&header->shared, false, ..); return false
x9_read_from_shared_inbox_unlock_not_read(t) ==
  /\ pc[t] = "sh_fail"
  /\ shared' = Upd2(shared, r_ibx[t], idx[t], FALSE)
  /\ pc' = Upd(pc, t, "idle")
  /\ idx' = Upd(idx, t, 0)
  /\ UNCHANGED <<cfg, bcast_k, idxs, slot_has_data, msg_written, payload, cell, outparam, k, rlog>>

(* ----------- x9_read_from_shared_inbox_spin (read_shared_spin) --------- *)

\* Mutant: the ticket is drawn once per call, as in x9_read_from_inbox_spin;
\* a retry goes back to the same slot.
x9_read_from_shared_inbox_spin_increment_idx_once(t) ==
  \/ /\ CanCall(t, "read_shared_spin")
     /\ idx' = Upd(idx, t, x9_load_idx(r_ibx[t], TRUE))
     /\ read_idx' = Upd(read_idx, r_ibx[t], FetchAdd(read_idx[r_ibx[t]]))
     /\ pc' = Upd(pc, t, "ss_cas")
     /\ UNCHANGED <<cfg, bcast_k, write_idx, flags, payload, cell, outparam, k, rlog>>
  \/ /\ pc[t] = "ss_inc"
     /\ pc' = Upd(pc, t, "ss_cas")
     /\ UNCHANGED <<cfg, bcast_k, idxs, flags, payload, locals>>

\* for (;;) { idx = x9_increment_idx(inbox, true); ..: the fetch-and-add is
\* the first statement of the loop body, executed on every iteration.
x9_read_from_shared_inbox_spin_increment_idx(t) ==
  /\ CanCall(t, "read_shared_spin") \/ pc[t] = "ss_inc"
  /\ idx' = Upd(idx, t, x9_load_idx(r_ibx[t], TRUE))
  /\ read_idx' = Upd(read_idx, r_ibx[t], FetchAdd(read_idx[r_ibx[t]]))
  /\ pc' = Upd(pc, t, "ss_cas")
  /\ UNCHANGED <<cfg, bcast_k, write_idx, flags, payload, cell, outparam, k, rlog>>

\* Mutant: the spinning read takes the lock without looking at it.
x9_read_from_shared_inbox_spin_cas_blind(t) ==
  /\ pc[t] = "ss_cas"
  /\ shared' = Upd2(shared, r_ibx[t], idx[t], TRUE)
  /\ pc' = Upd(pc, t, "ss_occ")
  /\ UNCHANGED <<cfg, bcast_k, idxs, slot_has_data, msg_written, payload, locals>>

\* atomic_compare_exchange_strong(&header->shared, &f, true); on failure
\* the loop starts over.
x9_read_from_shared_inbox_spin_cas(t) ==
  /\ pc[t] = "ss_cas"
  /\ IF ~shared[r_ibx[t]][idx[t]]
     THEN /\ shared' = Upd2(shared, r_ibx[t], idx[t], TRUE)
          /\ pc' = Upd(pc, t, "ss_occ")
     ELSE /\ pc' = Upd(pc, t, "ss_inc")
          /\ UNCHANGED shared
  /\ UNCHANGED <<cfg, bcast_k, idxs, slot_has_data, msg_written, payload, locals>>

x9_read_from_shared_inbox_spin_load_has_data(t) ==
  LoadOrElse(t, "ss_occ", slot_has_data, "ss_rdy", "ss_fail")

x9_read_from_shared_inbox_spin_load_written(t) ==
  LoadOrElse(t, "ss_rdy", msg_written, "ss_copy", "ss_fail")

x9_read_from_shared_inbox_spin_memcpy(t) == ReadCell(t, "ss_copy", "ss_clrw")

x9_read_from_shared_inbox_spin_clear_written(t) == ClearWritten(t, "ss_clrw", "ss_clrd")

x9_read_from_shared_inbox_spin_clear_has_data(t) == ClearHasData(t, "ss_clrd", "ss_unlock")

\* atomic_store_explicit(&header->shared, false, ..); return
x9_read_from_shared_inbox_spin_unlock(t) ==
  /\ pc[t] = "ss_unlock"
  /\ shared' = Upd2(shared, r_ibx[t], idx[t], FALSE)
  /\ ReturnRead(t)
  /\ UNCHANGED <<cfg, bcast_k, idxs, slot_has_data, msg_written, payload, cell, outparam>>

\* atomic_store_explicit(&header->shared, false, ..) at the end of the loop
\* body: the slot was not readable, next iteration.
x9_read_from_shared_inbox_spin_unlock_retry(t) ==
  /\ pc[t] = "ss_fail"
  /\ shared' = Upd2(shared, r_ibx[t], idx[t], FALSE)
  /\ pc' = Upd(pc, t, "ss_inc")
  /\ UNCHANGED <<cfg, bcast_k, idxs, slot_has_data, msg_written, payload, locals>>

(* --------------------------- the operations ---------------------------- *)

x9_write_to_inbox(t) ==
  \/ x9_write_to_inbox_load_idx(t)
  \/ x9_write_to_inbox_cas(t)
  \/ x9_write_to_inbox_memcpy(t)
  \/ x9_write_to_inbox_fetch_add(t)
  \/ x9_write_to_inbox_store_written(t)

x9_write_to_inbox_spin(t) ==
  \/ x9_write_to_inbox_spin_increment_idx(t)
  \/ x9_write_to_inbox_spin_cas(t)
  \/ x9_write_to_inbox_spin_memcpy(t)
  \/ x9_write_to_inbox_spin_store_written(t)

x9_read_from_inbox(t) ==
  \/ x9_read_from_inbox_load_idx(t)
  \/ x9_read_from_inbox_load_has_data(t)
  \/ x9_read_from_inbox_load_written(t)
  \/ x9_read_from_inbox_memcpy(t)
  \/ x9_read_from_inbox_clear_written(t)
  \/ x9_read_from_inbox_clear_has_data(t)
  \/ x9_read_from_inbox_fetch_add(t)

x9_read_from_inbox_spin(t) ==
  \/ x9_read_from_inbox_spin_increment_idx(t)
  \/ x9_read_from_inbox_spin_load_has_data(t)
  \/ x9_read_from_inbox_spin_load_written(t)
  \/ x9_read_from_inbox_spin_memcpy(t)
  \/ x9_read_from_inbox_spin_clear_written(t)
  \/ x9_read_from_inbox_spin_clear_has_data(t)

x9_read_from_shared_inbox(t) ==
  \/ x9_read_from_shared_inbox_load_idx(t)
  \/ x9_read_from_shared_inbox_cas(t)
  \/ x9_read_from_shared_inbox_load_has_data(t)
  \/ x9_read_from_shared_inbox_load_written(t)
  \/ x9_read_from_shared_inbox_memcpy(t)
  \/ x9_read_from_shared_inbox_fetch_add(t)
  \/ x9_read_from_shared_inbox_clear_written(t)
  \/ x9_read_from_shared_inbox_clear_has_data(t)
  \/ x9_read_from_shared_inbox_unlock(t)
  \/ x9_read_from_shared_inbox_unlock_not_read(t)

x9_read_from_shared_inbox_spin(t) ==
  \/ x9_read_from_shared_inbox_spin_increment_idx(t)
  \/ x9_read_from_shared_inbox_spin_cas(t)
  \/ x9_read_from_shared_inbox_spin_load_has_data(t)
  \/ x9_read_from_shared_inbox_spin_load_written(t)
  \/ x9_read_from_shared_inbox_spin_memcpy(t)
  \/ x9_read_from_shared_inbox_spin_clear_written(t)
  \/ x9_read_from_shared_inbox_spin_clear_has_data(t)
  \/ x9_read_from_shared_inbox_spin_unlock(t)
  \/ x9_read_from_shared_inbox_spin_unlock_retry(t)

(* --------------------------- configurations ---------------------------- *)

Setup(s, kd, op, n, ri, wi, tr) ==
  /\ x9_create_inbox(s)
  /\ ThreadsStart
  /\ kind = kd /\ ops = op /\ n_msgs = n
  /\ r_ibx = ri /\ w_ibx = wi /\ track = tr

\* One inbox, producers 1..np calling wop n times each, consumers 3, 4, ..
\* calling the operations cops[1], cops[2], .. for as long as they run.
Usage(s, np, wop, n, cops) ==
  Setup(s,
        [t \in Threads |-> IF t <= np THEN "producer"
                           ELSE IF t >= 3 /\ t <= 2 + Len(cops) THEN "consumer" ELSE "off"],
        [t \in Threads |-> IF t <= np THEN {wop}
                           ELSE IF t >= 3 /\ t <= 2 + Len(cops) THEN cops[t - 2] ELSE {}],
        [t \in Threads |-> IF t <= np THEN n
                           ELSE IF t >= 3 /\ t <= 2 + Len(cops) THEN Unlimited ELSE 0],
        [t \in Threads |-> 1], [t \in Threads |-> 1], TRUE)

\* The usages the library supports (x9.h, the examples): one x9_write_to_inbox
\* producer or any number of x9_write_to_inbox_spin producers, with one
\* consumer using the non-shared reads or any number using the shared ones.
\* <<producers, their operation, messages each, the consumers' operations>>
SupportedUsages ==
  { <<1, "write", NMsgs + 1, << {"read"} >> >>,
    <<1, "write", NMsgs + 1, << {"read_spin"} >> >>,
    <<1, "write", NMsgs - 1, << {"read_shared"}, {"read_shared"} >> >>,
    <<1, "write", NMsgs - 1, << {"read_shared"}, {"read_shared_spin"} >> >>,
    <<1, "write_spin", NMsgs + 1, << {"read"} >> >>,
    <<1, "write_spin", NMsgs + 1, << {"read_spin"} >> >>,
    <<1, "write_spin", NMsgs, << {"read_shared"}, {"read_shared"} >> >>,
    <<1, "write_spin", NMsgs, << {"read_shared"}, {"read_shared_spin"} >> >>,
    <<1, "write_spin", NMsgs - 1, << {"read_shared_spin"}, {"read_shared_spin"} >> >>,
    <<2, "write_spin", NMsgs - 1, << {"read"} >> >>,
    <<2, "write_spin", NMsgs - 1, << {"read_spin"} >> >>,
    <<2, "write_spin", NMsgs - 2, << {"read_shared"}, {"read_shared"} >> >>,
    <<2, "write_spin", NMsgs - 2, << {"read_shared"}, {"read_shared_spin"} >> >> }

Init ==
  \E s \in Capacities, u \in SupportedUsages : Usage(s, u[1], u[2], u[3], u[4])

Next ==
  \E t \in Threads :
    \/ x9_write_to_inbox(t)
    \/ x9_write_to_inbox_spin(t)
    \/ x9_read_from_inbox(t)
    \/ x9_read_from_inbox_spin(t)
    \/ x9_read_from_shared_inbox(t)
    \/ x9_read_from_shared_inbox_spin(t)

Spec == Init /\ [][Next]_vars

(* ----------------------------- observations ---------------------------- *)

Producers == { t \in Threads : kind[t] = "producer" }
Consumers == { t \in Threads : kind[t] = "consumer" }

\* The payload of message m as the producer wrote it.
PayloadOf(m) == [c \in Cells |-> m]

\* The messages whose write call has completed.
WrittenIds == UNION { { MsgId(t, j) : j \in 1..k[t] } : t \in Producers }

RECURSIVE SumOver(_, _)
SumOver(f, S) == IF S = {} THEN 0
                 ELSE LET x == CHOOSE y \in S : TRUE IN f[x] + SumOver(f, S \ {x})

\* How many successful reads returned payload v, over all consumers.
TimesRead(v) ==
  SumOver([t \in Threads |-> Cardinality({ i \in DOMAIN rlog[t] : rlog[t][i] = v })], Threads)

WritesCompleted == SumOver(k, Producers)
ReadsCompleted == SumOver([t \in Threads |-> Len(rlog[t])], Consumers)

AllWritesDone == \A t \in Producers : pc[t] = "idle" /\ k[t] = n_msgs[t]
ConsumersIdle == \A t \in Consumers : pc[t] = "idle"

\* A non-blocking read started now, alone, would return a message.
Consumable(ib) ==
  LET i == x9_load_idx(ib, TRUE)
  IN slot_has_data[ib][i] /\ msg_written[ib][i] /\ ~shared[ib][i]

ProducersCall(op) == \A t \in Producers : ops[t] = {op}
ConsumersCall(op) == \A t \in Consumers : ops[t] = {op}

(* ------------------- the spinning pair and the examples ---------------- *)

\* What a thread running only the spinning, non-shared operations can do.
SpinStep(t) == x9_write_to_inbox_spin(t) \/ x9_read_from_inbox_spin(t)

NextSpin ==
  \E t \in Threads :
    \/ x9_write_to_inbox_spin(t)
    \/ x9_read_from_inbox_spin(t)

\* Every thread runs on a core of its own (pthread_create in main): a
\* thread that can take a step eventually takes one.
FairSpin == \A t \in Threads : WF_vars(SpinStep(t))

\* x9_example_1.c / x9_profiler.c --test 1: producer_fn writes n messages
\* with x9_write_to_inbox_spin, consumer_fn reads n with
\* x9_read_from_inbox_spin, on one inbox.
InitS1 ==
  \E s \in Capacities, n \in 1..(NMsgs + 1) :
    Setup(s,
          [t \in Threads |-> IF t = 1 THEN "producer" ELSE IF t = 3 THEN "consumer" ELSE "off"],
          [t \in Threads |-> IF t = 1 THEN {"write_spin"}
                             ELSE IF t = 3 THEN {"read_spin"} ELSE {}],
          [t \in Threads |-> IF t \in {1, 3} THEN n ELSE 0],
          [t \in Threads |-> 1], [t \in Threads |-> 1], TRUE)

SpecS1 == InitS1 /\ [][NextSpin]_vars /\ FairSpin

\* The same two threads with loops that never end ("would commonly be
\* infinite loops"): no message is counted, every message is alike.
InitForever ==
  \E s \in Capacities :
    Setup(s,
          [t \in Threads |-> IF t = 1 THEN "producer" ELSE IF t = 3 THEN "consumer" ELSE "off"],
          [t \in Threads |-> IF t = 1 THEN {"write_spin"}
                             ELSE IF t = 3 THEN {"read_spin"} ELSE {}],
          [t \in Threads |-> IF t \in {1, 3} THEN Unlimited ELSE 0],
          [t \in Threads |-> 1], [t \in Threads |-> 1], FALSE)

SpecForever == InitForever /\ [][NextSpin]_vars /\ FairSpin

\* x9_example_2.c: producers 1 and 2 write n messages each to inbox 1,
\* the translator 3 reads inbox 1 and writes inbox 2, 2n times, and the
\* consumer 4 reads 2n messages from inbox 2.
InitS2 ==
  \E s \in Capacities, n \in 1..(NMsgs - 1) :
    Setup(s,
          [t \in Threads |-> IF t <= 2 THEN "producer"
                             ELSE IF t = 3 THEN "translator"
                             ELSE IF t = 4 THEN "consumer" ELSE "off"],
          [t \in Threads |-> IF t <= 2 THEN {"write_spin"}
                             ELSE IF t = 3 THEN {"read_spin", "write_spin"}
                             ELSE IF t = 4 THEN {"read_spin"} ELSE {}],
          [t \in Threads |-> IF t <= 2 THEN n ELSE IF t <= 4 THEN 2 * n ELSE 0],
          [t \in Threads |-> IF t = 4 THEN 2 ELSE 1],
          [t \in Threads |-> IF t = 3 THEN 2 ELSE 1], TRUE)

SpecS2 == InitS2 /\ [][NextSpin]_vars /\ FairSpin

\* A thread's loop has ended: every call it had to make has returned.
Finished(t) == pc[t] = "idle" /\ k[t] = n_msgs[t]

(* ------------------------- x9_example_3.c ------------------------------ *)

\* What a thread of example 3 can do.
PeerStep(t) == x9_write_to_inbox(t) \/ x9_read_from_inbox(t)

NextS3 ==
  \E t \in Threads :
    \/ x9_write_to_inbox(t)
    \/ x9_read_from_inbox(t)

FairS3 == \A t \in Threads : WF_vars(PeerStep(t))

\* producer_1_fn (thread 1) writes to ibx_1 and reads ibx_2, write first;
\* producer_2_fn (thread 2) reads ibx_1 and writes to ibx_2, read first;
\* each until it has sent n messages and read n.
InitS3 ==
  \E s \in Capacities, n \in 1..NMsgs :
    /\ x9_create_inbox(s)
    /\ LocalsStart
    /\ pc = [t \in Threads |-> IF t = 2 THEN "turn_r" ELSE "idle"]
    /\ kind = [t \in Threads |-> IF t <= 2 THEN "peer" ELSE "off"]
    /\ ops = [t \in Threads |-> IF t <= 2 THEN {"write", "read"} ELSE {}]
    /\ n_msgs = [t \in Threads |-> IF t <= 2 THEN n ELSE 0]
    /\ r_ibx = [t \in Threads |-> IF t = 1 THEN 2 ELSE 1]
    /\ w_ibx = [t \in Threads |-> IF t = 2 THEN 2 ELSE 1]
    /\ track = TRUE

SpecS3 == InitS3 /\ [][NextS3]_vars /\ FairS3

\* if ((msgs_read == NUMBER_OF_MESSAGES) && (msgs_sent == NUMBER_OF_MESSAGES)) break
PeerFinished(t) ==
  /\ pc[t] \in {"idle", "turn_r"}
  /\ msgs_sent(t) = n_msgs[t]
  /\ msgs_read(t) = n_msgs[t]

(* ====================== Properties: delivery ========================== *)

AllIds == 1..(4 * (NMsgs + 1))
IsPairing(w, r) == ProducersCall(w) /\ ConsumersCall(r)

\* All write calls have completed and every consumer has read until its
\* non-blocking read returned false on the slot of read_idx.
Drained == AllWritesDone /\ ConsumersIdle /\ ~Consumable(1)

NoLoss ==
  \A m \in AllIds :
    TimesRead(PayloadOf(m)) = (IF m \in WrittenIds THEN 1 ELSE 0)

\* C1 -- No message loss: for each of the pairings try_write/try_read,
\* write_spin/try_read and write_spin/try_read_shared, once all writes have
\* completed and the consumers have drained the inbox until idle, every
\* written payload has been returned by exactly one successful read.
C1_NoMessageLoss ==
  ( /\ \/ IsPairing("write", "read")
       \/ IsPairing("write_spin", "read")
       \/ IsPairing("write_spin", "read_shared")
    /\ Drained )
  => NoLoss

SharedUsage ==
  /\ ProducersCall("write_spin")
  /\ \A t \in Consumers : ops[t] \subseteq {"read_shared", "read_shared_spin"}

\* C2 -- No duplication under shared reads: with write_spin producers and
\* consumers calling try_read_shared and/or read_shared_spin, every written
\* message is returned by at most one successful read, and the successful
\* reads never outnumber the completed writes.
C2_NoDuplication ==
  SharedUsage =>
    /\ \A m \in AllIds : TimesRead(PayloadOf(m)) <= 1
    /\ ReadsCompleted <= WritesCompleted

\* Two shared consumers have each returned a message of the same inbox.
C2_Witness ==
  /\ SharedUsage
  /\ Cardinality(Consumers) = 2
  /\ \A t \in Consumers : Len(rlog[t]) >= 1

\* C3 -- Payload integrity: every payload returned by a successful read has
\* all its cells equal to the cells of one single write; never a partially
\* written payload, never a mix of two writes.
C3_PayloadIntegrity ==
  \A t \in Consumers :
    \A i \in DOMAIN rlog[t] :
      \E m \in WrittenIds :
        rlog[t][i] = PayloadOf(m)

\* A consumer has returned a message from a slot that had been used before,
\* while a producer is in the middle of copying the next payload.
C3_Witness ==
  /\ \E t \in Consumers : Len(rlog[t]) >= 3
  /\ \E p \in Producers : pc[p] \in {"w_copy", "ws_copy"} /\ cell[p] = 2

(* ====================== Properties: slot protocol ===================== *)

WriterOwns == {"w_copy", "w_inc", "w_pub", "ws_copy", "ws_pub"}
ReaderCopies == {"r_copy", "rs_copy", "sh_copy", "ss_copy"}
ReaderHolds == {"r_clrw", "r_clrd", "rs_clrw", "rs_clrd",
                "sh_inc", "sh_clrw", "sh_clrd", "ss_clrw", "ss_clrd"}
ReaderReleased == {"r_inc", "sh_unlock", "ss_unlock"}

\* The threads that touch the payload or the two data flags of slot i of
\* inbox ib: a writer from its successful CAS to its store of msg_written, a
\* reader from its memcpy to its store of slot_has_data.
Owners(ib, i) ==
  { t \in Threads :
      \/ pc[t] \in WriterOwns /\ WIbx(t) = ib /\ idx[t] = i
      \/ pc[t] \in ReaderCopies \cup ReaderHolds /\ r_ibx[t] = ib /\ idx[t] = i }

SlotsOf == { <<ib, i>> \in Inboxes \X (0..(Pow2W - 1)) : i \in Slots(ib) }

ExclusiveOwner == \A s \in SlotsOf : Cardinality(Owners(s[1], s[2])) <= 1

PublishedKept ==
  \A s \in SlotsOf :
    msg_written[s[1]][s[2]] => payload'[s[1]][s[2]] = payload[s[1]][s[2]]

\* C4 -- No data race on a slot: at any time at most one thread is between
\* claiming and releasing a given slot (a writer from its successful CAS to
\* its publication, a reader from its copy to its clearing of occupied), and
\* no step changes the payload of a slot whose message is published.
C4_NoSlotRace == []ExclusiveOwner /\ [][PublishedKept]_vars

\* Both slots of a ring are owned at once, one by a writer copying a payload
\* in and one by a reader copying a payload out.
C4_Witness ==
  \E w \in Producers, r \in Consumers :
    /\ pc[w] \in {"w_copy", "ws_copy"}
    /\ pc[r] \in ReaderCopies
    /\ WIbx(w) = r_ibx[r]
    /\ Cardinality(Producers) = 2

\* Messages written and not yet read: completed writes less the reads that
\* returned and the reads whose copy is complete.
Unread ==
  WritesCompleted - ReadsCompleted
    - Cardinality({ t \in Consumers : pc[t] \in ReaderHolds \cup ReaderReleased })

TryWriteFailsWhenFull ==
  \A t \in Producers :
    (pc[t] = "w_cas" /\ pc'[t] # "w_cas" /\ Unread = sz[1]) => pc'[t] = "idle"

\* C5 -- Capacity bound: the number of written and not yet read messages
\* never exceeds the capacity, and a try_write whose CAS runs while that
\* number equals the capacity returns false.
C5_CapacityBound == [](Unread <= sz[1]) /\ [][TryWriteFailsWhenFull]_vars

\* The ring holds as many unread messages as it has slots and a try_write
\* is about to attempt its CAS.
C5_Witness ==
  /\ Unread = sz[1]
  /\ \E t \in Producers : pc[t] = "w_cas"

Claims(t, ib, i) == pc[t] \in {"w_cas", "ws_cas"} /\ WIbx(t) = ib /\ idx[t] = i
Publishes(t, ib, i) == pc[t] \in {"w_pub", "ws_pub"} /\ WIbx(t) = ib /\ idx[t] = i
ClearsReady(t, ib, i) ==
  pc[t] \in {"r_clrw", "rs_clrw", "sh_clrw", "ss_clrw"} /\ r_ibx[t] = ib /\ idx[t] = i
ClearsOccupied(t, ib, i) ==
  pc[t] \in {"r_clrd", "rs_clrd", "sh_clrd", "ss_clrd"} /\ r_ibx[t] = ib /\ idx[t] = i

\* One step of the (slot_has_data, msg_written) pair of a slot.
FlagStep(ib, i) ==
  LET o == slot_has_data[ib][i]   r == msg_written[ib][i]
      o2 == slot_has_data'[ib][i] r2 == msg_written'[ib][i]
      By(P(_, _, _)) == \E t \in Threads : P(t, ib, i) /\ pc'[t] # pc[t]
  IN \/ o2 = o /\ r2 = r
     \/ ~o /\ ~r /\ o2 /\ ~r2 /\ By(Claims)
     \/ o /\ ~r /\ o2 /\ r2 /\ By(Publishes)
     \/ o /\ r /\ o2 /\ ~r2 /\ By(ClearsReady)
     \/ o /\ ~r /\ ~o2 /\ ~r2 /\ By(ClearsOccupied)

\* A reader goes on to copy a message out only from a slot that is both
\* occupied and ready.
ReadsOnlyReady ==
  \A t \in Consumers :
    (pc'[t] \in ReaderCopies /\ pc[t] \notin ReaderCopies)
      => slot_has_data[r_ibx[t]][idx[t]] /\ msg_written[r_ibx[t]][idx[t]]

AllEmpty ==
  \A s \in SlotsOf : ~slot_has_data[s[1]][s[2]] /\ ~msg_written[s[1]][s[2]]

\* C6 -- Flag cycle: every slot starts EMPTY and its (occupied, ready) pair
\* only moves EMPTY -> OCCUPIED (a writer's CAS) -> OCCUPIED+READY (that
\* writer's publication) -> OCCUPIED (a reader clears ready) -> EMPTY (that
\* reader clears occupied); a read goes on to return a message only from a
\* slot that is OCCUPIED+READY.
C6_FlagCycle ==
  /\ AllEmpty
  /\ [][(\A s \in SlotsOf : FlagStep(s[1], s[2])) /\ ReadsOnlyReady]_vars

\* A slot is OCCUPIED+READY for at least the second time: the consumers
\* have already returned as many messages as the ring has slots.
C6_Witness ==
  /\ ReadsCompleted >= sz[1]
  /\ \E s \in SlotsOf : slot_has_data[s[1]][s[2]] /\ msg_written[s[1]][s[2]]

(* ================== Properties: the spinning pair ===================== *)

\* C7 -- read_spin reads the next unread message: with one write_spin
\* producer and one read_spin consumer, the k-th read_spin call returns the
\* payload of the k-th write_spin call.
C7_SpinOrder ==
  \A i \in DOMAIN rlog[3] : rlog[3][i] = PayloadOf(MsgId(1, i))

InCall(t) == pc[t] # "idle"

\* C8 -- Progress of the spinning pair: with one producer calling write_spin
\* forever and one consumer calling read_spin forever on one inbox, under
\* weak fairness of both threads every call that has started returns.
C8_SpinProgress == \A t \in {1, 3} : InCall(t) ~> ~InCall(t)

\* The ring is full, the producer's CAS has just failed and it is about to
\* try again, and the consumer is inside a read_spin call.
C8_Witness ==
  /\ n_msgs[1] = Unlimited
  /\ \A i \in Slots(1) : slot_has_data[1][i]
  /\ pc[1] = "ws_inc"
  /\ InCall(3)

\* C9 -- Scenario S1: one producer making N write_spin calls and one
\* consumer making N read_spin calls; under weak fairness both threads make
\* all their calls and all N messages are read.
C9_S1Terminates ==
  <>( /\ Finished(1) /\ Finished(3)
      /\ { rlog[3][i] : i \in DOMAIN rlog[3] }
           = { PayloadOf(MsgId(1, j)) : j \in 1..n_msgs[1] } )

\* C10 -- Scenario S2: two producers each making N write_spin calls to
\* inbox 1, a translator forwarding 2N messages from inbox 1 to inbox 2 and
\* a consumer making 2N read_spin calls on inbox 2; under weak fairness all
\* four threads finish and the consumer has received the translations of
\* the 2N messages written to inbox 1, each once.
C10_S2Terminates ==
  <>( /\ \A t \in Threads : Finished(t)
      /\ \A p \in {1, 2} : \A j \in 1..n_msgs[p] :
           Cardinality({ i \in DOMAIN rlog[4] :
                           rlog[4][i] = PayloadOf(Translate(MsgId(p, j))) }) = 1 )

(* ------------------------- x9_example_4.c ------------------------------ *)

\* The consumer threads of example 4, one per inbox of the node.
S4Consumers == {3, 4, 5}

\* producer_fn (thread 1) broadcasts n messages to the three inboxes of the
\* node; consumer_fn (threads 3, 4, 5) reads n messages from ibx_1, ibx_2,
\* ibx_3 with x9_read_from_inbox_spin.
InitS4 ==
  \E s \in Capacities, n \in 1..NMsgs :
    Setup(s,
          [t \in Threads |-> IF t = 1 THEN "broadcaster"
                             ELSE IF t \in S4Consumers THEN "consumer" ELSE "off"],
          [t \in Threads |-> IF t = 1 THEN {"write_spin"}
                             ELSE IF t \in S4Consumers THEN {"read_spin"} ELSE {}],
          [t \in Threads |-> IF t = 1 \/ t \in S4Consumers THEN n ELSE 0],
          [t \in Threads |-> IF t \in S4Consumers THEN t - 2 ELSE 1],
          [t \in Threads |-> 1], TRUE)

SpecS4 == InitS4 /\ [][NextSpin]_vars /\ FairSpin

(* ------------------------- x9_example_5.c ------------------------------ *)

S5Producers == {1, 2, 3}
S5Consumers == {4, 5, 6}

\* What a thread of example 5 can do.
S5Step(t) == x9_write_to_inbox_spin(t) \/ x9_read_from_shared_inbox(t)

NextS5 ==
  \E t \in Threads :
    \/ x9_write_to_inbox_spin(t)
    \/ x9_read_from_shared_inbox(t)

FairS5 == \A t \in Threads : WF_vars(S5Step(t))

\* producer_fn (threads 1, 2, 3) writes n messages with
\* x9_write_to_inbox_spin, the last one with last_message set; consumer_fn
\* (threads 4, 5, 6) calls x9_read_from_shared_inbox until it has read a
\* message with last_message set; all on one inbox.
InitS5 ==
  \E s \in Capacities, n \in 1..(NMsgs - 2) :
    Setup(s,
          [t \in Threads |-> IF t \in S5Producers THEN "producer" ELSE "until_last"],
          [t \in Threads |-> IF t \in S5Producers THEN {"write_spin"} ELSE {"read_shared"}],
          [t \in Threads |-> IF t \in S5Producers THEN n ELSE Unlimited],
          [t \in Threads |-> 1], [t \in Threads |-> 1], TRUE)

SpecS5 == InitS5 /\ [][NextS5]_vars /\ FairS5

(* ------------------------- x9_example_6.c ------------------------------ *)

S6Consumers == {3, 4}

\* What a thread of example 6 can do.
S6Step(t) == x9_write_to_inbox_spin(t) \/ x9_read_from_shared_inbox_spin(t)

NextS6 ==
  \E t \in Threads :
    \/ x9_write_to_inbox_spin(t)
    \/ x9_read_from_shared_inbox_spin(t)

FairS6 == \A t \in Threads : WF_vars(S6Step(t))

\* x9_create_inbox(4, "ibx", sizeof(msg)) in the examples: an inbox with
\* twice the smallest capacity.
ExampleCapacity == 2 * (MaxHalfSz + 1)

\* producer_fn (thread 1) writes n messages with x9_write_to_inbox_spin,
\* the last one with last_message set; consumer_fn (threads 3, 4) loops on
\* x9_read_from_shared_inbox_spin and, on a message with last_message set,
\* writes it back with x9_write_to_inbox_spin and returns.
InitS6 ==
  \E n \in 1..(NMsgs + 1) :
    Setup(ExampleCapacity,
          [t \in Threads |-> IF t = 1 THEN "producer"
                             ELSE IF t \in S6Consumers THEN "echo_last" ELSE "off"],
          [t \in Threads |-> IF t = 1 THEN {"write_spin"}
                             ELSE IF t \in S6Consumers
                             THEN {"read_shared_spin", "write_spin"} ELSE {}],
          [t \in Threads |-> IF t = 1 THEN n
                             ELSE IF t \in S6Consumers THEN Unlimited ELSE 0],
          [t \in Threads |-> 1], [t \in Threads |-> 1], TRUE)

SpecS6 == InitS6 /\ [][NextS6]_vars /\ FairS6

(* ================== Properties: the example programs ================== *)

\* C11 -- Scenario S3: two threads, each alternating a try_write to its
\* outbound inbox and a try_read from its inbound inbox until it has written
\* N and read N messages; under weak fairness both threads finish, and each
\* has read exactly the N messages the other wrote, in the order written.
C11_S3Terminates ==
  <>( /\ PeerFinished(1) /\ PeerFinished(2)
      /\ rlog[1] = [j \in 1..n_msgs[2] |-> PayloadOf(MsgId(2, j))]
      /\ rlog[2] = [j \in 1..n_msgs[1] |-> PayloadOf(MsgId(1, j))] )

\* Both threads have finished a run with more messages than the inboxes
\* have slots.
C11_Witness ==
  /\ PeerFinished(1) /\ PeerFinished(2)
  /\ kind[1] = "peer"
  /\ n_msgs[1] > sz[1]

\* No thread can change anything any more: every loop has ended or is
\* polling a flag that no running thread will ever set.
StoppedS4 == \A t \in Threads : ~ENABLED <<SpinStep(t)>>_vars

\* C12 -- Scenario S4: one producer broadcasting N messages to a node of
\* three inboxes and three consumers each making N read_spin calls on its
\* own inbox; every consumer's N calls return, and the k-th payload received
\* is the same for the three consumers.  Stated on the states in which the
\* program can do nothing more: there every consumer has made its N calls,
\* and the three logs are equal.
C12_S4Delivers ==
  StoppedS4 =>
    /\ \A t \in S4Consumers : Finished(t)
    /\ \A t \in S4Consumers : rlog[t] = rlog[3]

\* The producers of example 5 have returned, no read is in progress and a
\* x9_read_from_shared_inbox started now returns false: from here on every
\* read attempt fails and leaves the inbox as it is.
S5Drained ==
  /\ \A t \in S5Producers : Finished(t)
  /\ \A t \in S5Consumers : pc[t] \in {"idle", "done"}
  /\ ~Consumable(1)

\* C13 -- Scenario S5: three producers each making N write_spin calls (the
\* last one flagged) and three consumers each looping on try_read_shared
\* until it reads a flagged message; all six threads terminate, the
\* consumers' read counts add up to 3 * N and every count is positive.
\* Stated on the states in which the producers are done and nothing is left
\* that a read could return: there every consumer has left its loop.
C13_S5Terminates ==
  S5Drained =>
    /\ \A t \in S5Consumers : pc[t] = "done" /\ k[t] > 0
    /\ SumOver(k, S5Consumers) = SumOver(n_msgs, S5Producers)

S6Done == Finished(1) /\ \A t \in S6Consumers : pc[t] = "done"

\* C14 -- Scenario S6: one producer making N write_spin calls (the last one
\* flagged) and two consumers looping on read_shared_spin, each writing a
\* flagged message back and leaving; under weak fairness all three threads
\* terminate, and then the reads add up to N or N + 1 and each consumer has
\* read at least one message.
C14_S6Counts ==
  /\ <>S6Done
  /\ [](S6Done =>
          /\ SumOver(k, S6Consumers) \in {n_msgs[1], n_msgs[1] + 1}
          /\ \A t \in S6Consumers : k[t] > 0)

\* The consumer thread of the j-th inbox of the node (example 4).
S4ConsumerOf(j) == j + 2

\* Copies published so far in the j-th inbox of the node: those its consumer
\* has returned or has just un-published, and those still READY in the ring.
Published(j) ==
  LET ib == node_inboxes[j]
      c == S4ConsumerOf(j)
  IN k[c] + Cardinality({ i \in Slots(ib) : msg_written[ib][i] })
          + (IF pc[c] = "rs_clrd" THEN 1 ELSE 0)

\* C15 -- Broadcast delivers once to every inbox, in list order: after b
\* completed broadcasts, and with the loop of the current one at list
\* position p, every inbox before p has had b + 1 copies published and
\* every inbox from p on has had b (so the copy for inbox j is published
\* before the write to inbox j + 1 starts, and a returned call has published
\* exactly one copy in each inbox); every published copy is the payload of a
\* broadcast, and the write in progress is the one to inbox p.
C15_BroadcastOnceInOrder ==
  kind[1] = "broadcaster" =>
    /\ \A j \in DOMAIN node_inboxes :
         Published(j) = k[1] + (IF j < bcast_k[1] THEN 1 ELSE 0)
    /\ \A j \in DOMAIN node_inboxes : \A i \in Slots(node_inboxes[j]) :
         msg_written[node_inboxes[j]][i] =>
           \E b \in 1..(k[1] + 1) : payload[node_inboxes[j]][i] = PayloadOf(MsgId(1, b))
    /\ pc[1] # "idle" => bcast_k[1] \in DOMAIN node_inboxes

\* The second broadcast or a later one is writing to the last inbox of the
\* node after a failed attempt on a full ring.
C15_Witness ==
  /\ kind[1] = "broadcaster"
  /\ k[1] >= 1
  /\ bcast_k[1] = Len(node_inboxes)
  /\ pc[1] = "ws_inc"
  /\ \A i \in Slots(node_inboxes[bcast_k[1]]) : slot_has_data[node_inboxes[bcast_k[1]]][i]

(* ================= Properties: the non-blocking calls ================= *)

\* Everything of the inboxes that threads share.
inbox_state == <<read_idx, write_idx, slot_has_data, msg_written, shared, payload>>

TryWriters == { t \in Threads : "write" \in ops[t] }

\* A step of thread t that starts a x9_write_to_inbox call / that is its CAS.
TryWriteStarts(t) == pc[t] \notin {"w_cas"} /\ pc'[t] = "w_cas"
TryWriteCas(t) == pc[t] = "w_cas" /\ pc'[t] # "w_cas"
TryWriteFails(t) == TryWriteCas(t) /\ pc'[t] # "w_copy"

\* C16 -- try_write has no side effects on failure: the CAS fails exactly
\* when the slot of write_idx is occupied; the call then returns false and
\* neither of its steps (the load of write_idx, the failed CAS) has changed
\* a counter, a flag or a payload, nor the caller's message count; and, the
\* producer being alone, the slot a new attempt would compute is the slot
\* that has just been refused, and stays so until a write of this producer
\* succeeds, which takes a read that frees the slot.
C16_TryWriteFailure ==
  /\ [][\A t \in TryWriters :
          /\ TryWriteStarts(t) => UNCHANGED inbox_state
          /\ TryWriteCas(t) => (TryWriteFails(t) <=> slot_has_data[WIbx(t)][idx[t]])
          /\ TryWriteFails(t) =>
               /\ UNCHANGED <<inbox_state, k>>
               /\ x9_load_idx(WIbx(t), FALSE)' = idx[t]]_vars
  /\ [](\A t \in TryWriters : pc[t] = "w_cas" => idx[t] = x9_load_idx(WIbx(t), FALSE))
  /\ [][\A t \in TryWriters :
          x9_load_idx(WIbx(t), FALSE)' # x9_load_idx(WIbx(t), FALSE)
            => (pc[t] = "w_inc" /\ pc'[t] = "w_pub")]_vars

\* The producer's x9_write_to_inbox is at its CAS on a slot that still holds
\* an unread message, after it has written as many messages as the ring has
\* slots.
C16_Witness ==
  \E t \in TryWriters :
    /\ pc[t] = "w_cas"
    /\ slot_has_data[WIbx(t)][idx[t]]
    /\ k[t] >= sz[WIbx(t)]

TryReaders == { t \in Threads : "read" \in ops[t] }

TryReadPcs == {"r_occ", "r_rdy", "r_copy", "r_clrw", "r_clrd", "r_inc"}

\* A step of thread t in which its x9_read_from_inbox call returns.
TryReadReturns(t) == pc[t] \in TryReadPcs /\ pc'[t] \notin TryReadPcs

\* C17 -- try_read: the call returns false at its load of slot_has_data when
\* the slot of read_idx is empty, and at its load of msg_written when the
\* slot is claimed but not published; up to that return it has changed no
\* counter, flag, payload, nor the caller's buffer and count. It goes on to
\* copy only from a slot that is claimed and published, and then it leaves
\* the slot with both flags clear and adds exactly 1 to read_idx before it
\* returns true, which it does nowhere else.
C17_TryReadContract ==
  /\ [][\A t \in TryReaders :
          LET ib == r_ibx[t]
              i == idx[t]
          IN /\ (pc[t] \notin TryReadPcs /\ pc'[t] \in TryReadPcs)
                  => (UNCHANGED <<inbox_state, outparam, rlog>> /\ pc'[t] = "r_occ")
             /\ (pc[t] = "r_occ" /\ pc'[t] # "r_occ")
                  => /\ UNCHANGED <<inbox_state, outparam, rlog>>
                     /\ IF slot_has_data[ib][i] THEN pc'[t] = "r_rdy"
                                                ELSE TryReadReturns(t)
             /\ (pc[t] = "r_rdy" /\ pc'[t] # "r_rdy")
                  => /\ UNCHANGED <<inbox_state, outparam, rlog>>
                     /\ IF msg_written[ib][i] THEN pc'[t] = "r_copy"
                                              ELSE TryReadReturns(t)
             /\ (pc[t] = "r_clrd" /\ pc'[t] = "r_inc")
                  => (~slot_has_data'[ib][i] /\ ~msg_written'[ib][i])
             /\ (pc[t] = "r_inc" /\ pc'[t] # "r_inc")
                  => (read_idx'[ib] = (read_idx[ib] + 1) % Pow2W /\ TryReadReturns(t))
             /\ Len(rlog'[t]) # Len(rlog[t])
                  => (pc[t] = "r_inc" /\ Len(rlog'[t]) = Len(rlog[t]) + 1)]_vars
  /\ [](\A t \in TryReaders :
          /\ pc[t] \in TryReadPcs \ {"r_inc"} => idx[t] = x9_load_idx(r_ibx[t], TRUE)
          /\ pc[t] \in {"r_copy", "r_clrw"}
               => (slot_has_data[r_ibx[t]][idx[t]] /\ msg_written[r_ibx[t]][idx[t]]))

\* Both outcomes at once are not a state; the two refusals are: the consumer
\* is at its second load on a slot that is claimed but not yet published,
\* after it has read a message and has been refused at an empty slot.
C17_Witness ==
  \E t \in TryReaders :
    /\ pc[t] = "r_rdy"
    /\ slot_has_data[r_ibx[t]][idx[t]]
    /\ ~msg_written[r_ibx[t]][idx[t]]
    /\ Len(rlog[t]) > 0

SharedTryReaders == { t \in Threads : "read_shared" \in ops[t] }

\* Where a shared read is between its successful CAS on `shared` and its
\* store of false to it.
SharedLockedPcs == {"sh_occ", "sh_rdy", "sh_copy", "sh_inc", "sh_clrw", "sh_clrd",
                    "sh_unlock", "sh_fail"}
SharedSpinLockedPcs == {"ss_occ", "ss_rdy", "ss_copy", "ss_clrw", "ss_clrd",
                        "ss_unlock", "ss_fail"}

\* The threads inside a locked section of slot i of inbox ib.
LockHolders(ib, i) ==
  { t \in Threads : /\ pc[t] \in SharedLockedPcs \cup SharedSpinLockedPcs
                    /\ r_ibx[t] = ib /\ idx[t] = i }

\* C18 -- try_read_shared fails cleanly: a call whose CAS finds `shared` set
\* returns false and changes nothing; a call that holds the lock and finds
\* slot_has_data or msg_written clear goes to its store of false to
\* `shared`, changes nothing else and returns false; both returns leave the
\* caller's buffer and count alone. Every return, true or false, leaves the
\* slot's lock clear, and a slot is locked exactly while one reader is
\* inside its locked section: no lock outlives the call that took it.
C18_SharedReadFailsCleanly ==
  /\ [][\A t \in SharedTryReaders :
          LET ib == r_ibx[t]
              i == idx[t]
          IN /\ (pc[t] = "sh_cas" /\ pc'[t] # "sh_cas")
                  => IF shared[ib][i]
                     THEN /\ pc'[t] \notin SharedLockedPcs
                          /\ UNCHANGED <<inbox_state, outparam, k, rlog>>
                     ELSE pc'[t] = "sh_occ" /\ shared'[ib][i]
             /\ (pc[t] = "sh_occ" /\ pc'[t] # "sh_occ")
                  => /\ UNCHANGED <<inbox_state, outparam, k, rlog>>
                     /\ pc'[t] = (IF slot_has_data[ib][i] THEN "sh_rdy" ELSE "sh_fail")
             /\ (pc[t] = "sh_rdy" /\ pc'[t] # "sh_rdy")
                  => /\ UNCHANGED <<inbox_state, outparam, k, rlog>>
                     /\ pc'[t] = (IF msg_written[ib][i] THEN "sh_copy" ELSE "sh_fail")
             /\ (pc[t] = "sh_fail" /\ pc'[t] # "sh_fail")
                  => /\ ~shared'[ib][i]
                     /\ pc'[t] \notin SharedLockedPcs \cup {"sh_cas"}
                     /\ UNCHANGED <<read_idx, write_idx, slot_has_data, msg_written,
                                    payload, outparam, k, rlog>>
             /\ (pc[t] \in SharedLockedPcs /\ pc'[t] \notin SharedLockedPcs)
                  => (pc[t] \in {"sh_unlock", "sh_fail"} /\ ~shared'[ib][i])]_vars
  /\ [](\A ib \in Inboxes : \A i \in 0..(sz[ib] - 1) :
          Cardinality(LockHolders(ib, i)) = (IF shared[ib][i] THEN 1 ELSE 0))

\* One consumer holds the lock of a slot it has found without a message and
\* is about to release it, while another is at its CAS on the same slot,
\* which it will lose.
C18_Witness ==
  \E t, u \in SharedTryReaders :
    /\ t # u /\ r_ibx[t] = r_ibx[u] /\ idx[t] = idx[u]
    /\ pc[t] = "sh_fail" /\ pc[u] = "sh_cas"
    /\ shared[r_ibx[t]][idx[t]]

\* The x9_read_from_shared_inbox callers inside a locked section of inbox ib.
InLockedSection(ib) ==
  { t \in SharedTryReaders : pc[t] \in SharedLockedPcs /\ r_ibx[t] = ib }

\* C20 -- shared reads are serialized per slot, not per inbox: the CAS of a
\* x9_read_from_shared_inbox call looks at the lock of its own slot only, so
\* it succeeds whenever that slot is unlocked, whatever other slots of the
\* inbox are locked; and two callers inside locked sections of one inbox
\* are always in different slots.
C20_SerializedPerSlot ==
  /\ [][\A t \in SharedTryReaders :
          (pc[t] = "sh_cas" /\ pc'[t] # "sh_cas")
            => (pc'[t] = "sh_occ" <=> ~shared[r_ibx[t]][idx[t]])]_vars
  /\ [](\A ib \in Inboxes : \A t, u \in InLockedSection(ib) :
          t # u => idx[t] # idx[u])

\* Two consumers are inside the locked sections of two different slots of
\* the same inbox, each slot's lock being set.
C20_Witness ==
  \E ib \in Inboxes : \E t, u \in InLockedSection(ib) :
    /\ t # u /\ idx[t] # idx[u]
    /\ shared[ib][idx[t]] /\ shared[ib][idx[u]]

(* ============ Properties: the index arithmetic on its own ============== *)

\* The counters of one inbox taken through their whole range, at a width
\* and with capacities large enough for capacities that are not powers of
\* two: thread 1 calls x9_load_idx and x9_increment_idx and nothing else.
ModBits == 5
MaxModHalfSz == 4
ModPow2W == 2 ^ ModBits
ModCapacities == { 2 * h : h \in 1..MaxModHalfSz }

ModCounter(rd) == IF rd THEN read_idx[1] ELSE write_idx[1]

\* idx = x9_load_idx(inbox, rd)
ModLoadIdx(rd) ==
  /\ idx' = Upd(idx, 1, x9_fast_mod(ModPow2W, constant[1], sz[1], ModCounter(rd)))
  /\ UNCHANGED <<cfg, bcast_k, idxs, flags, payload, pc, cell, outparam, k, rlog>>

\* idx = x9_increment_idx(inbox, rd): the fetch-and-add returns the old
\* counter, which goes through the fast modulo.
ModIncrementIdx(rd) ==
  /\ idx' = Upd(idx, 1, x9_fast_mod(ModPow2W, constant[1], sz[1], ModCounter(rd)))
  /\ IF rd THEN /\ read_idx' = Upd(read_idx, 1, (read_idx[1] + 1) % ModPow2W)
                /\ UNCHANGED write_idx
           ELSE /\ write_idx' = Upd(write_idx, 1, (write_idx[1] + 1) % ModPow2W)
                /\ UNCHANGED read_idx
  /\ UNCHANGED <<cfg, bcast_k, flags, payload, pc, cell, outparam, k, rlog>>

NextMod == \E rd \in BOOLEAN : ModLoadIdx(rd) \/ ModIncrementIdx(rd)

InitMod ==
  \E s \in ModCapacities :
    /\ Constructed
    /\ s > 0 /\ s % 2 = 0
    /\ sz = [ib \in Inboxes |-> s]
    /\ constant = [ib \in Inboxes |-> x9_constant(ModPow2W, s)]
    /\ read_idx = [ib \in Inboxes |-> 0]
    /\ write_idx = [ib \in Inboxes |-> 0]
    /\ slot_has_data = [ib \in Inboxes |-> [i \in 0..(s - 1) |-> FALSE]]
    /\ msg_written = [ib \in Inboxes |-> [i \in 0..(s - 1) |-> FALSE]]
    /\ shared = [ib \in Inboxes |-> [i \in 0..(s - 1) |-> FALSE]]
    /\ payload = [ib \in Inboxes |-> [i \in 0..(s - 1) |-> [c \in Cells |-> 0]]]
    /\ ThreadsStart
    /\ kind = [t \in Threads |-> "off"]
    /\ ops = [t \in Threads |-> {}]
    /\ n_msgs = [t \in Threads |-> 0]
    /\ r_ibx = [t \in Threads |-> 1]
    /\ w_ibx = [t \in Threads |-> 1]
    /\ track = FALSE

SpecMod == InitMod /\ [][NextMod]_vars

\* C19 -- modulo correctness: for the capacity of the inbox (even, power of
\* two or not) and every value its two counters take, the whole range
\* [0, 2^ModBits), the index the fast modulo computes from the constant
\* stored at construction equals the counter modulo the capacity.
C19_FastModIsMod ==
  \A rd \in BOOLEAN :
    x9_fast_mod(ModPow2W, constant[1], sz[1], ModCounter(rd)) = ModCounter(rd) % sz[1]

(* ===================== construction and release ======================== *)

\* The setup and teardown code of a program (the main functions of the
\* examples): one thread that creates up to three inboxes, builds one node
\* from them, looks inboxes up by name and frees what it made.

\* Most inbox references a x9_create_node call is given.
MaxArgs == 3

\* Inbox names; "" is the empty string.
Names == {"", "a", "b"}

\* The name given to the node.
NodeNames == {"node"}

\* Sizes passed to x9_create_inbox: zero, odd and even ones.
Sizes == 0..(2 * MaxHalfSz + 1)

\* Which allocation of a create call returns NULL, if any.
InboxAllocs == {"none", "inbox", "ibx_name", "msgs"}
NodeAllocs == {"none", "node", "node_name", "inboxes"}

\* What aligned_alloc hands out before the memset: any counter values.
Garbage == {0, Pow2W - 1}

inbox_mem == <<sz, constant, idxs, flags, payload>>
callers   == <<kind, ops, n_msgs, r_ibx, w_ibx, track, pc, locals, bcast_k>>

InboxLive(ib) == inbox_made[ib] /\ inbox_frees[ib] = 0
NodeLive == node_made /\ node_frees = 0

Returned(op, val, fault, refs, name) ==
  [op |-> op, val |-> val, fault |-> fault, refs |-> refs, name |-> name]

\* Mutant: odd sizes are let through.
inbox_correct_size_positive(s) == s > 0

\* if (!((sz > 0) && !(sz % 2))) { goto inbox_incorrect_size; }
inbox_correct_size(s) == (s > 0) /\ ~(s % 2 # 0)

\* x9_create_inbox(sz, name, msg_sz) as a call: ib is the memory the
\* allocator hands out.
x9_create_inbox_one(ib, s, nm, fail) ==
  /\ ~inbox_made[ib] /\ \A j \in Inboxes : j < ib => inbox_made[j]
  /\ IF ~inbox_correct_size(s) \/ fail # "none"
     THEN /\ ret' = Returned("create_inbox", NULL, FALSE, <<s>>, nm)
          /\ UNCHANGED <<inbox_mem, inbox_name, inbox_made>>
     ELSE /\ read_idx' = Upd(read_idx, ib, 0)
          /\ write_idx' = Upd(write_idx, ib, 0)
          /\ slot_has_data' = Upd(slot_has_data, ib, [i \in 0..(s - 1) |-> FALSE])
          /\ msg_written' = Upd(msg_written, ib, [i \in 0..(s - 1) |-> FALSE])
          /\ shared' = Upd(shared, ib, [i \in 0..(s - 1) |-> FALSE])
          /\ payload' = Upd(payload, ib, [i \in 0..(s - 1) |-> [c \in Cells |-> 0]])
          /\ constant' = Upd(constant, ib, x9_create_inbox_constant(s))
          /\ inbox_name' = Upd(inbox_name, ib, nm)
          /\ sz' = Upd(sz, ib, s)
          /\ inbox_made' = Upd(inbox_made, ib, TRUE)
          /\ ret' = Returned("create_inbox", ib, FALSE, <<s>>, nm)
  /\ UNCHANGED <<callers, inbox_frees, node, node_made, node_frees>>

\* Mutant: the new reference is compared with the one just before it only.
ScanEarlier_adjacent(arr, inbox, kk, j) ==
  IF inbox = arr[kk - 1] THEN [dup |-> TRUE, arr |-> arr]
  ELSE [dup |-> FALSE, arr |-> [arr EXCEPT ![kk] = inbox]]

\* for (j = 0; j != k; ++j) { if (inbox == node->inboxes[j]) goto
\* node_multiple_equal_inboxes; else node->inboxes[k] = inbox; }
RECURSIVE ScanEarlier(_, _, _, _)
ScanEarlier(arr, inbox, kk, j) ==
  IF j = kk THEN [dup |-> FALSE, arr |-> arr]
  ELSE IF inbox = arr[j] THEN [dup |-> TRUE, arr |-> arr]
  ELSE ScanEarlier([arr EXCEPT ![kk] = inbox], inbox, kk, j + 1)

\* for (k = 0; k != n_inboxes; ++k) { inbox = va_arg(..); if (k) { scan }
\* else node->inboxes[k] = inbox; }   (positions counted from 1 here)
RECURSIVE FillInboxes(_, _, _)
FillInboxes(arr, args, kk) ==
  IF kk = Len(args) + 1 THEN [dup |-> FALSE, arr |-> arr]
  ELSE IF kk # 1
       THEN LET r == ScanEarlier(arr, args[kk], kk, 1)
            IN IF r.dup THEN r ELSE FillInboxes(r.arr, args, kk + 1)
       ELSE FillInboxes([arr EXCEPT ![kk] = args[kk]], args, kk + 1)

\* What a caller passes as an inbox: what x9_create_inbox returned, an
\* inbox still alive or NULL.
ArgRefs == {NULL} \cup { ib \in Inboxes : InboxLive(ib) }
ArgLists == UNION { [1..n -> ArgRefs] : n \in 0..MaxArgs }

\* x9_create_node(name, n_inboxes, ...) with n_inboxes = Len(args).
x9_create_node(nm, args, fail) ==
  /\ ~node_made
  /\ LET n == Len(args)
         r == FillInboxes([i \in 1..n |-> NULL], args, 1)
     IN IF ~(n > 0) \/ fail # "none" \/ r.dup
        THEN /\ ret' = Returned("create_node", NULL, FALSE, args, nm)
             /\ UNCHANGED <<node, node_made>>
        ELSE /\ node' = [inboxes |-> r.arr, n_inboxes |-> n, name |-> nm]
             /\ node_made' = TRUE
             /\ ret' = Returned("create_node", 1, FALSE, args, nm)
  /\ UNCHANGED <<inbox_mem, callers, inbox_name, inbox_made, inbox_frees, node_frees>>

\* for (k = 0; k != node->n_inboxes; ++k) if (x9_inbox_name_is(
\* node->inboxes[k], name)) return node->inboxes[k];  return NULL;
\* x9_inbox_name_is reads inbox->name: on a NULL entry that is a null
\* dereference, after which the call may fault, or strcmp may have found
\* the names equal or different.
RECURSIVE SelectOutcomes(_, _)
SelectOutcomes(nm, kk) ==
  IF kk = node.n_inboxes + 1 THEN { [val |-> NULL, fault |-> FALSE] }
  ELSE LET ib == node.inboxes[kk]
       IN IF ib = NULL
          THEN { [val |-> NULL, fault |-> TRUE], [val |-> NULL, fault |-> FALSE] }
                 \cup SelectOutcomes(nm, kk + 1)
          ELSE IF inbox_name[ib] = nm THEN { [val |-> ib, fault |-> FALSE] }
          ELSE SelectOutcomes(nm, kk + 1)

x9_select_inbox_from_node(nm) ==
  /\ NodeLive
  /\ \E o \in SelectOutcomes(nm, 1) :
       ret' = Returned("select", o.val, o.fault, node.inboxes, nm)
  /\ UNCHANGED <<inbox_mem, callers, inbox_name, inbox_made, inbox_frees,
                 node, node_made, node_frees>>

\* free(inbox->msgs); free(inbox->name); free(inbox)
x9_free_inbox(ib) ==
  /\ InboxLive(ib)
  /\ ~(NodeLive /\ \E i \in 1..node.n_inboxes : node.inboxes[i] = ib)
  /\ inbox_frees' = Upd(inbox_frees, ib, inbox_frees[ib] + 1)
  /\ ret' = Returned("free_inbox", NULL, FALSE, <<ib>>, "")
  /\ UNCHANGED <<inbox_mem, callers, inbox_name, inbox_made, node, node_made, node_frees>>

\* free(node->name); free(node->inboxes); free(node)
x9_free_node ==
  /\ NodeLive
  /\ node_frees' = node_frees + 1
  /\ ret' = Returned("free_node", NULL, FALSE, node.inboxes, "")
  /\ UNCHANGED <<inbox_mem, callers, inbox_name, inbox_made, inbox_frees, node, node_made>>

\* Mutant: only the first inbox of the node is released.
FreeAttached_first_only(frees, arr, kk) ==
  IF Len(arr) >= 1 /\ NULL # arr[1]
  THEN [frees |-> [frees EXCEPT ![arr[1]] = @ + 1], arr |-> [arr EXCEPT ![1] = NULL]]
  ELSE [frees |-> frees, arr |-> arr]

\* for (k ..) if (NULL != node->inboxes[k]) { x9_free_inbox(
\* node->inboxes[k]); node->inboxes[k] = NULL; }
RECURSIVE FreeAttached(_, _, _)
FreeAttached(frees, arr, kk) ==
  IF kk = Len(arr) + 1 THEN [frees |-> frees, arr |-> arr]
  ELSE IF NULL # arr[kk]
       THEN FreeAttached([frees EXCEPT ![arr[kk]] = @ + 1],
                         [arr EXCEPT ![kk] = NULL], kk + 1)
       ELSE FreeAttached(frees, arr, kk + 1)

\* .. then x9_free_node(node)
x9_free_node_and_attached_inboxes ==
  /\ NodeLive
  /\ LET r == FreeAttached(inbox_frees, node.inboxes, 1)
     IN /\ inbox_frees' = r.frees
        /\ node' = [node EXCEPT !.inboxes = r.arr]
  /\ node_frees' = node_frees + 1
  /\ ret' = Returned("free_node_and_attached_inboxes", NULL, FALSE, node.inboxes, "")
  /\ UNCHANGED <<inbox_mem, callers, inbox_name, inbox_made, node_made>>

NextNode ==
  \/ \E ib \in Inboxes, s \in Sizes, nm \in Names, fail \in InboxAllocs :
       x9_create_inbox_one(ib, s, nm, fail)
  \/ \E nm \in NodeNames, args \in ArgLists, fail \in NodeAllocs :
       x9_create_node(nm, args, fail)
  \/ \E nm \in Names : x9_select_inbox_from_node(nm)
  \/ \E ib \in Inboxes : x9_free_inbox(ib)
  \/ x9_free_node
  \/ x9_free_node_and_attached_inboxes

\* Nothing has been created; the memory the inboxes will get is not zeroed.
InitNode ==
  \E g \in Garbage :
    /\ sz = [ib \in Inboxes |-> 0]
    /\ constant = [ib \in Inboxes |-> 0]
    /\ read_idx = [ib \in Inboxes |-> g]
    /\ write_idx = [ib \in Inboxes |-> g]
    /\ slot_has_data = [ib \in Inboxes |-> <<>>]
    /\ msg_written = [ib \in Inboxes |-> <<>>]
    /\ shared = [ib \in Inboxes |-> <<>>]
    /\ payload = [ib \in Inboxes |-> <<>>]
    /\ inbox_name = [ib \in Inboxes |-> ""]
    /\ inbox_made = [ib \in Inboxes |-> FALSE]
    /\ inbox_frees = [ib \in Inboxes |-> 0]
    /\ node = NoNode /\ node_made = FALSE /\ node_frees = 0
    /\ ret = NoRet
    /\ ThreadsStart
    /\ kind = [t \in Threads |-> "off"]
    /\ ops = [t \in Threads |-> {}]
    /\ n_msgs = [t \in Threads |-> 0]
    /\ r_ibx = [t \in Threads |-> 1]
    /\ w_ibx = [t \in Threads |-> 1]
    /\ track = FALSE

SpecNode == InitNode /\ [][NextNode]_vars

(* ============ Properties: construction and release ===================== *)

\* The same reference at two positions of the list.
HasDuplicate(args) ==
  \E i, j \in 1..Len(args) : i # j /\ args[i] = args[j]

\* C21 -- x9_create_node rejects duplicates: a call whose argument list has
\* the same reference at two positions, whichever they are, returns NULL
\* and leaves no node; a call that returned a node was given pairwise
\* distinct references and the node holds them in argument order; and a
\* call with at least one reference, all distinct, whose allocations
\* succeed returns a node.
C21_NodeRejectsDuplicates ==
  /\ [](ret.op = "create_node" =>
          /\ HasDuplicate(ret.refs) => (ret.val = NULL /\ ~node_made)
          /\ ret.val # NULL =>
               /\ node_made /\ ~HasDuplicate(ret.refs)
               /\ node.n_inboxes = Len(ret.refs)
               /\ (NodeLive => node.inboxes = ret.refs))
  /\ [][(/\ ret'.op = "create_node"
          /\ Len(ret'.refs) >= 1 /\ ~HasDuplicate(ret'.refs)
          /\ x9_create_node(ret'.name, ret'.refs, "none"))
            => (ret'.val # NULL /\ node_made' /\ node'.inboxes = ret'.refs)]_vars

\* A call with three references, the first and the last the same inbox and
\* the middle one another, has returned NULL.
C21_Witness ==
  /\ ret.op = "create_node" /\ ret.val = NULL /\ ~node_made
  /\ Len(ret.refs) = 3
  /\ ret.refs[1] = ret.refs[3] /\ ret.refs[1] # ret.refs[2] /\ ret.refs[1] # NULL

\* C22 -- x9_create_node returns NULL when it is given no inbox, and when
\* any of the references it is given is NULL, be it only one of them.
C22_NodeRejectsNull ==
  (ret.op = "create_node"
     /\ (Len(ret.refs) = 0 \/ \E i \in 1..Len(ret.refs) : ret.refs[i] = NULL))
    => ret.val = NULL

\* All three flags of every slot of inbox ib are false, over exactly the
\* slots 0 .. sz - 1.
EverySlotEmpty(ib) ==
  /\ DOMAIN slot_has_data[ib] = 0..(sz[ib] - 1)
  /\ DOMAIN msg_written[ib] = 0..(sz[ib] - 1)
  /\ DOMAIN shared[ib] = 0..(sz[ib] - 1)
  /\ \A i \in 0..(sz[ib] - 1) :
       ~slot_has_data[ib][i] /\ ~msg_written[ib][i] /\ ~shared[ib][i]

\* C23 -- x9_create_inbox validates the capacity: a call with capacity 0 or
\* odd returns NULL and creates nothing; a call that returned an inbox had a
\* positive even capacity, and the inbox has that capacity, read_idx =
\* write_idx = 0 and every slot with slot_has_data, msg_written and shared
\* false; a call with a positive even capacity whose allocations succeed
\* returns an inbox.
C23_InboxValidatesCapacity ==
  /\ [](ret.op = "create_inbox" =>
          LET s == ret.refs[1]
          IN /\ (s = 0 \/ s % 2 = 1) => ret.val = NULL
             /\ ret.val # NULL =>
                  /\ s > 0 /\ s % 2 = 0
                  /\ inbox_made[ret.val] /\ sz[ret.val] = s
                  /\ read_idx[ret.val] = 0 /\ write_idx[ret.val] = 0
                  /\ EverySlotEmpty(ret.val))
  /\ [][ret'.op = "create_inbox" =>
          /\ ret'.val = NULL => UNCHANGED <<inbox_made, inbox_mem>>
          /\ (/\ ret'.refs[1] > 0 /\ ret'.refs[1] % 2 = 0
              /\ \E ib \in Inboxes :
                   x9_create_inbox_one(ib, ret'.refs[1], ret'.name, "none"))
               => ret'.val # NULL]_vars

\* A call has returned an inbox, with zeroed counters, while the memory of
\* an inbox not yet created still holds other values.
C23_Witness ==
  /\ ret.op = "create_inbox" /\ ret.val # NULL
  /\ read_idx[ret.val] = 0 /\ write_idx[ret.val] = 0
  /\ \E ib \in Inboxes : ~inbox_made[ib] /\ read_idx[ib] # 0

\* C24 -- x9_create_inbox returns NULL when the name is the empty string,
\* whatever the capacity.
C24_InboxRejectsEmptyName ==
  (ret.op = "create_inbox" /\ ret.name = "") => ret.val = NULL

\* The positions of the node whose inbox is named nm.
NamedAt(nm) ==
  { i \in 1..node.n_inboxes :
      node.inboxes[i] # NULL /\ inbox_name[node.inboxes[i]] = nm }

\* C25 -- x9_select_inbox_from_node returns the inbox at the first position
\* of the node's list whose name equals the argument, returns NULL exactly
\* when no inbox of the node has that name, and changes neither the node
\* nor any inbox.
C25_SelectFirstByName ==
  /\ [](ret.op = "select" =>
          /\ ~ret.fault
          /\ IF NamedAt(ret.name) = {} THEN ret.val = NULL
             ELSE \E i \in NamedAt(ret.name) :
                    /\ \A j \in NamedAt(ret.name) : i <= j
                    /\ ret.val = node.inboxes[i])
  /\ [][ret'.op = "select" =>
          UNCHANGED <<node, node_made, node_frees, inbox_mem, inbox_name,
                      inbox_made, inbox_frees>>]_vars

\* The inboxes the node refers to.
Attached == { node.inboxes[i] : i \in 1..node.n_inboxes } \ {NULL}

\* C26 -- x9_free_node_and_attached_inboxes frees the node once and every
\* inbox the node refers to once, and no other inbox; x9_free_node frees
\* the node once and leaves every inbox alive and as it was. Nothing is
\* ever freed twice.
C26_ReleaseExactlyOnce ==
  /\ [][/\ ret'.op = "free_node_and_attached_inboxes" =>
             /\ node_frees = 0 /\ node_frees' = 1
             /\ \A ib \in Inboxes :
                  IF ib \in Attached
                  THEN inbox_frees[ib] = 0 /\ inbox_frees'[ib] = 1
                  ELSE inbox_frees'[ib] = inbox_frees[ib]
             /\ UNCHANGED <<inbox_mem, inbox_name, inbox_made>>
        /\ ret'.op = "free_node" =>
             /\ node_frees = 0 /\ node_frees' = 1
             /\ \A ib \in Attached : InboxLive(ib)'
             /\ UNCHANGED <<inbox_frees, inbox_mem, inbox_name, inbox_made>>]_vars
  /\ [](node_frees <= 1 /\ \A ib \in Inboxes : inbox_frees[ib] <= 1)

\* The combined call has released a node of two inboxes, both now freed
\* once, while an inbox that was not in the node is still alive.
C26_Witness ==
  /\ ret.op = "free_node_and_attached_inboxes" /\ node_frees = 1
  /\ Len(ret.refs) = 2
  /\ ret.refs[1] # NULL /\ ret.refs[2] # NULL
  /\ inbox_frees[ret.refs[1]] = 1 /\ inbox_frees[ret.refs[2]] = 1
  /\ \E ib \in Inboxes : InboxLive(ib)

(* ============== Properties: tickets and the shared reads =============== *)

WriteSpinPcs == {"ws_inc", "ws_cas", "ws_copy", "ws_pub"}

\* C27 -- write_spin reserves one ticket per call: with one producer making
\* write_spin calls, write_idx is the number of calls that have returned
\* plus one for a call in progress, however long that call has waited; and
\* from its first fetch-and-add to its return a call keeps the slot index
\* it drew.
C27_OneTicketPerCall ==
  /\ [](write_idx[1] = (k[1] + (IF pc[1] \in WriteSpinPcs THEN 1 ELSE 0)) % Pow2W)
  /\ [][(pc[1] \in WriteSpinPcs /\ pc'[1] \in WriteSpinPcs) => idx'[1] = idx[1]]_vars

\* Whenever no read_shared_spin call is in progress, read_idx is the number
\* of messages the calls made so far have returned.
SpinSharedCountAfterCalls ==
  (ConsumersCall("read_shared_spin") /\ ConsumersIdle)
    => read_idx[1] = ReadsCompleted % Pow2W

\* C28 -- read_shared_spin as a retry loop around try_read_shared: read_idx
\* advances only in a step of a consumer that is inside the locked section
\* of a slot whose message it has copied, and so, after any number of
\* read_shared_spin calls, read_idx has advanced by the number of messages
\* those calls returned.
C28_SpinSharedCountsDrains ==
  /\ [][(ConsumersCall("read_shared_spin") /\ read_idx'[1] # read_idx[1])
          => \E t \in Consumers :
               /\ pc'[t] # pc[t]
               /\ pc[t] \in SharedSpinLockedPcs \ {"ss_occ", "ss_rdy", "ss_fail"}
               /\ shared[1][idx[t]]]_vars
  /\ []SpinSharedCountAfterCalls

SharedReaders ==
  { t \in Threads : ops[t] \cap {"read_shared", "read_shared_spin"} # {} }

\* C29 -- mutual exclusion on `shared`: with consumers calling
\* try_read_shared and read_shared_spin on one inbox, at most one consumer
\* at a time is between its successful CAS on a slot's `shared` and its
\* store of false to it, the flag is set exactly while a consumer is there,
\* it is set only by a consumer's CAS on that slot and cleared only by the
\* consumer that holds it.
C29_SharedMutualExclusion ==
  /\ [](\A ib \in Inboxes : \A i \in Slots(ib) :
          /\ \A t, u \in LockHolders(ib, i) : t = u
          /\ shared[ib][i] <=> LockHolders(ib, i) # {})
  /\ [][\A ib \in Inboxes : \A i \in Slots(ib) :
          /\ (~shared[ib][i] /\ shared'[ib][i])
               => \E t \in SharedReaders :
                    /\ pc[t] \in {"sh_cas", "ss_cas"} /\ r_ibx[t] = ib /\ idx[t] = i
                    /\ pc'[t] \in {"sh_occ", "ss_occ"}
          /\ (shared[ib][i] /\ ~shared'[ib][i])
               => \E t \in LockHolders(ib, i) :
                    pc'[t] \notin SharedLockedPcs \cup SharedSpinLockedPcs]_vars

\* A try_read_shared consumer is inside the locked section of a slot while
\* a read_shared_spin consumer is at its CAS on the same slot.
C29_Witness ==
  \E t, u \in SharedReaders :
    /\ "read_shared" \in ops[t] /\ "read_shared_spin" \in ops[u]
    /\ pc[t] \in SharedLockedPcs /\ pc[u] = "ss_cas"
    /\ r_ibx[t] = r_ibx[u] /\ idx[t] = idx[u]
    /\ shared[r_ibx[t]][idx[t]]

\* One x9_write_to_inbox producer and one x9_read_from_inbox consumer.
NonBlockingPair ==
  /\ Cardinality(Producers) = 1 /\ Cardinality(Consumers) = 1
  /\ ProducersCall("write") /\ ConsumersCall("read")

\* C30 -- FIFO, exactly once, for the non-blocking pair: with one producer
\* calling only try_write and one consumer calling only try_read, the k-th
\* read that returned true returned the payload of the k-th write that
\* returned true, and the reads that returned true never outnumber those
\* writes.
C30_NonBlockingFifo ==
  NonBlockingPair =>
    \A p \in Producers, c \in Consumers :
      /\ Len(rlog[c]) <= k[p]
      /\ \A i \in DOMAIN rlog[c] : rlog[c][i] = PayloadOf(MsgId(p, i))

\* The consumer has read every message of the producer, more messages than
\* the ring has slots, so that each slot has been used more than once.
C30_Witness ==
  /\ NonBlockingPair
  /\ \E p \in Producers, c \in Consumers :
       /\ k[p] = n_msgs[p] /\ Len(rlog[c]) = k[p]
       /\ k[p] >= 2 * sz[1]

(* ============ Properties: the non-blocking pair, continued ============= *)

\* C31 -- no spurious would-block for the non-blocking pair: with one
\* try_write producer and one try_read consumer, a try_write returns false
\* only in a state where every slot of the inbox is occupied, and a
\* try_read returns false only in a state where no slot holds a published
\* message.
C31_NoSpuriousWouldBlock ==
  [][NonBlockingPair =>
       /\ \A p \in Producers :
            TryWriteFails(p) => \A i \in Slots(1) : slot_has_data[1][i]
       /\ \A c \in Consumers :
            (pc[c] \in {"r_occ", "r_rdy"} /\ TryReadReturns(c))
              => \A i \in Slots(1) : ~(slot_has_data[1][i] /\ msg_written[1][i])]_vars

\* The consumer's try_read is about to return false at a slot the producer
\* has claimed and is still filling, after earlier messages went through.
C31_Witness ==
  /\ NonBlockingPair
  /\ \E p \in Producers, c \in Consumers :
       /\ pc[c] = "r_rdy" /\ ~msg_written[1][idx[c]]
       /\ pc[p] = "w_copy" /\ idx[p] = idx[c]
       /\ Len(rlog[c]) >= sz[1]

(* ========== Properties: spinning shared readers on one inbox ========== *)

SSConsumers == {3, 4}

SSCapacities == Capacities \cup {ExampleCapacity}

NextSS ==
  \E t \in Threads :
    \/ x9_write_to_inbox_spin(t)
    \/ x9_read_from_shared_inbox_spin(t)

\* Only the consumers are required to keep running.
FairSS == \A t \in SSConsumers : WF_vars(x9_read_from_shared_inbox_spin(t))

\* One producer making n x9_write_to_inbox_spin calls, one or two consumers
\* looping on x9_read_from_shared_inbox_spin for as long as they run.
InitSS ==
  \E s \in SSCapacities, n \in 1..NMsgs,
     cops \in { << {"read_shared_spin"} >>,
                << {"read_shared_spin"}, {"read_shared_spin"} >> } :
    Usage(s, 1, "write_spin", n, cops)

SpecSS == InitSS /\ [][NextSS]_vars /\ FairSS

\* Slot i holds the published, unread message m.
ReadyAt(i, m) ==
  /\ i \in Slots(1)
  /\ slot_has_data[1][i] /\ msg_written[1][i]
  /\ payload[1][i] = PayloadOf(m)

\* Some x9_read_from_shared_inbox_spin call has returned message m.
ReturnedBySpin(m) ==
  \E c \in SSConsumers : \E j \in DOMAIN rlog[c] : rlog[c][j] = PayloadOf(m)

\* C32 -- read_shared_spin finds a message wherever it sits: when a slot of
\* the inbox holds a published message and the consumers keep running
\* x9_read_from_shared_inbox_spin under weak fairness (the producer need not
\* run again), some x9_read_from_shared_inbox_spin call eventually returns
\* that message, whatever the slot and whatever the value of read_idx.
C32_SharedSpinFinds ==
  \A m \in 1..NMsgs :
    (\E i \in Slots(1) : ReadyAt(i, m)) ~> ReturnedBySpin(m)

\* A message sits published in a slot that read_idx does not point at,
\* the producer has nothing more to write, and a consumer that has already
\* returned a message is inspecting another, empty slot.
C32_Witness ==
  \E i \in Slots(1), m \in 1..NMsgs, c \in SSConsumers :
    /\ ReadyAt(i, m)
    /\ x9_load_idx(1, TRUE) # i
    /\ AllWritesDone
    /\ pc[c] = "ss_fail" /\ idx[c] # i
    /\ Len(rlog[c]) >= 1

(* ================ Properties: a broadcast that is stuck ================ *)

\* The message the broadcast in progress is handing to each inbox.
BcastMsg == PayloadOf(MsgId(1, k[1] + 1))

\* Inbox j holds, or has held, the message of the broadcast in progress.
BcastReceived(j) == \E i \in Slots(j) : payload[j][i] = BcastMsg

\* No cell of inbox j, and nothing its consumer has read, comes from the
\* message of the broadcast in progress.
BcastUntouched(j) ==
  /\ \A i \in Slots(j), c \in Cells : payload[j][i][c] # BcastMsg[c]
  /\ \A x \in DOMAIN rlog[j + 2] : rlog[j + 2][x] # BcastMsg

\* The broadcast is inside its x9_write_to_inbox_spin on inbox kk, between
\* two attempts, and every slot of that inbox is occupied.
BcastStuckAt(kk) ==
  /\ kind[1] = "broadcaster" /\ bcast_k[1] = kk
  /\ pc[1] \in {"ws_inc", "ws_cas"}
  /\ \A i \in Slots(node_inboxes[kk]) : slot_has_data[node_inboxes[kk]][i]

\* This step is not one of thread t.
Still(t) == pc'[t] = pc[t] /\ cell'[t] = cell[t]

\* C33 -- broadcast is sequential and not atomic: while inbox k of the node
\* is full and its consumer takes no step, the broadcast call stays inside
\* its write to inbox k and does not return; the inboxes before k in list
\* order have received the message of this broadcast and the inboxes after
\* k hold nothing of it.
C33_BroadcastStuck ==
  [][\A kk \in DOMAIN node_inboxes :
       (BcastStuckAt(kk) /\ Still(kk + 2))
         => /\ BcastStuckAt(kk)' /\ k'[1] = k[1]
            /\ \A j \in 1..(kk - 1) : BcastReceived(j)'
            /\ \A j \in (kk + 1)..Len(node_inboxes) : BcastUntouched(j)']_vars

\* The third broadcast has reached the first inbox and failed to claim a
\* slot of the second, whose consumer has not read anything; the third
\* inbox has been emptied by its consumer.
C33_Witness ==
  /\ BcastStuckAt(2) /\ pc[1] = "ws_inc"
  /\ k[1] = sz[2]
  /\ rlog[4] = <<>>
  /\ BcastReceived(1)
  /\ BcastUntouched(3) /\ Len(rlog[5]) = k[1]

(* =================== Properties: the flags of a slot ==================== *)

\* C34 -- ready implies occupied: in every reachable state, under every
\* supported usage, a slot whose msg_written is set has slot_has_data set.
C34_ReadyImpliesOccupied ==
  \A ib \in Inboxes : \A i \in Slots(ib) :
    msg_written[ib][i] => slot_has_data[ib][i]

\* A consumer has cleared msg_written of the slot it read and not yet
\* slot_has_data, a producer has claimed the other slot and not yet
\* published it, and messages have been read before.
C34_Witness ==
  \E c \in Consumers, p \in Producers :
    /\ pc[c] \in {"r_clrd", "rs_clrd", "sh_clrd", "ss_clrd"}
    /\ slot_has_data[1][idx[c]] /\ ~msg_written[1][idx[c]]
    /\ pc[p] \in {"w_copy", "w_inc", "w_pub", "ws_copy", "ws_pub"}
    /\ idx[p] # idx[c]
    /\ slot_has_data[1][idx[p]] /\ ~msg_written[1][idx[p]]
    /\ Len(rlog[c]) >= 1

\* The slots of inbox ib that hold a published, unread message.
ReadySlots(ib) == { i \in Slots(ib) : slot_has_data[ib][i] /\ msg_written[ib][i] }

\* write_idx - read_idx in the unsigned arithmetic of the counters.
QueueLength(ib) == (write_idx[ib] - read_idx[ib] + Pow2W) % Pow2W

\* C35 -- the counters track the queue length for the non-blocking pair:
\* with one try_write producer and one try_read consumer, whenever neither
\* thread is inside a call, write_idx - read_idx equals the number of slots
\* that hold a published message, and lies between 0 and the capacity.
C35_CountersTrackLength ==
  (NonBlockingPair /\ \A t \in Producers \cup Consumers : ~InCall(t))
    => /\ QueueLength(1) = Cardinality(ReadySlots(1))
       /\ QueueLength(1) \in 0..sz[1]

\* Neither thread is in a call, the ring is full, and the producer has
\* written more messages than the ring has slots.
C35_Witness ==
  /\ NonBlockingPair
  /\ \A t \in Producers \cup Consumers : ~InCall(t)
  /\ Cardinality(ReadySlots(1)) = sz[1]
  /\ \E p \in Producers : k[p] > sz[1]

(* ================= Properties: the index arithmetic ==================== *)

\* C36 -- the slot index is in bounds: for the capacity of the inbox (even,
\* power of two or not) and every value its two counters take, the whole
\* range [0, 2^ModBits), the index x9_load_idx and x9_increment_idx compute
\* and the index they last returned lie in [0, capacity).
C36_IndexInBounds ==
  /\ \A rd \in BOOLEAN :
       x9_fast_mod(ModPow2W, constant[1], sz[1], ModCounter(rd)) \in 0..(sz[1] - 1)
  /\ idx[1] \in 0..(sz[1] - 1)

\* The capacity is not a power of two, read_idx is the largest counter
\* value, and the index last returned is the last slot.
C36_Witness ==
  /\ sz[1] = 6
  /\ read_idx[1] = ModPow2W - 1
  /\ idx[1] = sz[1] - 1

\* C37, as stated -- the reciprocal constant: for every legal capacity,
\* powers of two included, the constant stored at construction equals
\* floor(2^ModBits / capacity) + 1.
C37_ConstantIsFloorPlusOne ==
  constant[1] = (ModPow2W \div sz[1]) + 1

\* C37, amended -- the constant stored at construction is
\* ceil(2^ModBits / capacity), the least K with K * capacity >= 2^ModBits:
\* floor(2^ModBits / capacity) + 1 when the capacity does not divide
\* 2^ModBits, and 2^ModBits / capacity when it is a power of two.
C37_ConstantIsCeiling ==
  /\ constant[1] * sz[1] >= ModPow2W
  /\ (constant[1] - 1) * sz[1] < ModPow2W
  /\ constant[1] = (ModPow2W \div sz[1]) + (IF ModPow2W % sz[1] = 0 THEN 0 ELSE 1)

\* An inbox whose capacity is a power of two, with constant * capacity
\* exactly 2^ModBits, after its counters have been used.
C37_Witness ==
  /\ sz[1] = 2 * MaxModHalfSz
  /\ constant[1] * sz[1] = ModPow2W
  /\ read_idx[1] > 0 /\ write_idx[1] > 0

(* ===================== Properties: the counters ======================== *)

WritePcs == {"w_cas", "w_copy", "w_inc", "w_pub", "ws_inc", "ws_cas", "ws_copy", "ws_pub"}

ReadPcs ==
  {"r_occ", "r_rdy", "r_copy", "r_clrw", "r_clrd", "r_inc",
   "rs_occ", "rs_rdy", "rs_copy", "rs_clrw", "rs_clrd",
   "sh_cas", "sh_occ", "sh_rdy", "sh_copy", "sh_inc", "sh_clrw", "sh_clrd",
   "sh_unlock", "sh_fail",
   "ss_inc", "ss_cas", "ss_occ", "ss_rdy", "ss_copy", "ss_clrw", "ss_clrd",
   "ss_unlock", "ss_fail"}

\* This step is a statement of a call whose statements are at the places S.
StepOf(S) ==
  \E t \in Threads :
    /\ pc'[t] # pc[t] \/ cell'[t] # cell[t]
    /\ pc[t] \in S \/ pc'[t] \in S

\* C38 -- read_idx and write_idx never decrease: in every interleaving of
\* the six operations, a step leaves each counter unchanged or adds one to
\* it (in the arithmetic of the counter's width); a step of a write
\* operation leaves read_idx unchanged and a step of a read operation
\* leaves write_idx unchanged.
C38_CountersMonotone ==
  [][/\ \A ib \in Inboxes :
          /\ read_idx'[ib] \in {read_idx[ib], FetchAdd(read_idx[ib])}
          /\ write_idx'[ib] \in {write_idx[ib], FetchAdd(write_idx[ib])}
     /\ StepOf(WritePcs) => read_idx' = read_idx
     /\ StepOf(ReadPcs) => write_idx' = write_idx]_vars

\* Both counters have been advanced up to the last value before they
\* wrap, with a write and a read in progress.
C38_Witness ==
  /\ write_idx[1] = Pow2W - 1 /\ read_idx[1] = Pow2W - 1
  /\ \E p \in Producers : pc[p] \in WritePcs
  /\ \E c \in Consumers : pc[c] \in ReadPcs

(* ===================== Properties: the lock flag ======================= *)

NonSharedPcs ==
  WritePcs \cup {"r_occ", "r_rdy", "r_copy", "r_clrw", "r_clrd", "r_inc",
                 "rs_occ", "rs_rdy", "rs_copy", "rs_clrw", "rs_clrd"}

\* C39 -- the non-shared operations do not touch `shared`: a step of
\* x9_write_to_inbox, x9_write_to_inbox_spin (alone or inside a broadcast),
\* x9_read_from_inbox or x9_read_from_inbox_spin leaves every slot's
\* `shared` flag as it was, and in a run in which no thread calls a shared
\* read every `shared` flag is false in every state.
C39_NonSharedLeaveLock ==
  /\ [][StepOf(NonSharedPcs) => shared' = shared]_vars
  /\ [](SharedReaders = {}
          => \A ib \in Inboxes : \A i \in Slots(ib) : ~shared[ib][i])

\* No thread calls a shared read; a consumer that has read as many
\* messages as the ring has slots is clearing a slot while a producer is
\* inside a write.
C39_Witness ==
  /\ SharedReaders = {}
  /\ \E c \in Consumers, p \in Producers :
       /\ pc[c] \in {"r_clrd", "rs_clrd"}
       /\ Len(rlog[c]) >= sz[1]
       /\ pc[p] \in WritePcs
  /\ \A i \in Slots(1) : ~shared[1][i]
====
